---- MODULE Spec2Model ----
(***************************************************************************)
(* vis-capture: the Linux audio bridge of the Clear Spotify client.        *)
(*                                                                         *)
(* main() of native/linux/main.cpp (polling loop, send rate limit,         *)
(* shutdown) and native/common/fft.h (window and bin-edge tables, the      *)
(* radix-2 transform, computeBars).                                        *)
(* WsServer (native/common/ws_server.h) and the protocol constants         *)
(* (native/common/protocol.h) are modelled from the design document.       *)
(*                                                                         *)
(* Time is in microseconds, as in frameInterval.  Floats are fixed-point   *)
(* numbers with overflow to infinity and NaN (see the float section).      *)
(*                                                                         *)
(* guard.js of the Chrome extension (disabled state, login guard banner)   *)
(* is a scenario of its own: the page, its timers and its observer.        *)
(*                                                                         *)
(* The Windows install and uninstall scripts are a third scenario: one     *)
(* action per numbered section, over the files, processes, startup entry   *)
(* and spicetify settings they touch.                                      *)
(***************************************************************************)
EXTENDS Integers, Sequences, FiniteSets

VARIABLES
    pc,            \* position of main(): the statement executed next
    g_running,     \* std::atomic<bool> g_running
    exitStatus,    \* value returned by main(), -1 while running
    wsListening,   \* WsServer: listening socket open
    wsClient,      \* WsServer: a client is attached (hasClient())
    peerAlive,     \* network: the attached client's connection still works
    connPending,   \* network: an incoming connection waits to be accepted
    paOpen,        \* the pa_simple* handle is open
    clock,         \* steady_clock, microseconds since the process started
    nextSend,      \* main(): earliest time of the next send
    cfg,           \* protocol constants (protocol.h)
    g_hanningReady,\* fft.h: window table computed
    g_binsReady,   \* fft.h: bin-edge tables computed
    g_binLo,       \* fft.h: low bin of each bar
    g_binHi,       \* fft.h: high bin of each bar
    g_hanning,     \* fft.h: window coefficients
    hanningWrites, \* history: times the window table was filled
    binWrites,     \* history: times the bin-edge tables were filled
    op,            \* history: the operation the last step performed
    sawClient,     \* history: hasClient() as read at the idle check of this iteration
    idleReads,     \* history: audio reads started with no client attached
    lastSendAt,    \* history: clock reading of the last send attempt, -1 if none
    sendsNoClient, \* history: send attempts made with no client attached
    barSends,      \* history: send attempts of the current Bar Frame
    prevSendAt,    \* history: clock reading of the send attempt before the last, -1 if none
    winStart,      \* history: clock reading at which the first client attached, -1 if none
    winSends,      \* history: frames sent in the second that follows winStart
    afterSigPolls, \* history: polls made after onSignal ran
    afterSigReads, \* history: audio reads finished after onSignal ran
    afterSigSleeps,\* history: idle sleeps finished after onSignal ran
    readFailed,    \* history: pa_simple_read has failed
    sendFailed,    \* history: a sendBinary has failed
    resumed,       \* history: a frame was sent after a failed send
    loopEntered,   \* history: the while condition was evaluated
    anyRead,       \* history: pa_simple_read was called
    paFrees,       \* history: calls of pa_simple_free
    wsStops,       \* history: calls of ws.stop()
    samplesFresh,  \* history: samples[] holds a block read in this iteration
    barsFresh,     \* history: bars[] was computed from this iteration's block
    staleSends,    \* history: frames sent that were not computed in this iteration
    iterReads,     \* history: audio reads of this iteration
    iterComputes,  \* history: computeBars calls of this iteration
    dmode,         \* transform scenario: "off", "fft" or "bars"
    samples,       \* computeBars: the Sample Block
    buf,           \* computeBars/fft: the complex buffer
    fn,            \* fft: n
    flen,          \* fft: len
    fi,            \* fft: i
    fj,            \* fft: j
    fw,            \* fft: w
    bars,          \* computeBars: the output Bar Frame
    bufIn,         \* history: the buffer fft was called with
    passLens,      \* history: stage lengths of the passes started
    touched,       \* history: butterflies of this pass that accessed each index
    oob,           \* history: an access outside the buffer was attempted
    localStorage,  \* guard.js: localStorage, the value of each key ("null" if absent)
    clearExtensionDisabled, \* guard.js: window.__clearExtensionDisabled
    clearExtensionNoSplash, \* guard.js: window.__clearExtensionNoSplash
    sheets,        \* page: each theme stylesheet is "absent", "enabled" or "disabled"
    hasBody,       \* page: document.body exists
    domLoaded,     \* page: DOMContentLoaded has fired
    winLoaded,     \* page: the load event of window has fired
    noSplashClass, \* page: body carries the class clear-no-splash
    userWidget,    \* page: an element with data-testid user-widget(-link) exists
    loginButton,   \* page: an element with data-testid login-button or signup-button exists
    pathname,      \* page: window.location.pathname, as its segments
    banners,       \* page: number of elements with id clear-guard-banner
    ivActive,      \* guard.js: the 50 ms interval iv is running
    ivKill,        \* guard.js: the 5 s timeout that clears iv is pending
    recheck,       \* guard.js: the 2 s interval recheck is running
    domWait,       \* guard.js: listeners waiting for DOMContentLoaded
    loadWait,      \* guard.js: tryDisable waits for the load event
    initTimer,     \* guard.js: the 1.5 s timeout of init is pending
    observing,     \* guard.js: the MutationObserver observes document.body
    pending,       \* page: origins of the mutation records queued for the observer
    reloading,     \* page: a navigation to the page is under way
    disabledAtLoad,\* history: the script of this page took the disabled branch
    pageChanges,   \* history: changes made by the user and the application so far
    lastSaw,       \* history: result of the last isLoggedIn() of a check
    chain,         \* history: callbacks in a row caused by the script's own mutations
    spos,          \* scripts: the section run next, "idle" between scripts
    spicetifyCmd,  \* machine: Get-Command spicetify finds the program
    spicetifyDir,  \* machine: the spicetify config directory exists
    clearDir,      \* machine: the directory Themes\Clear exists
    clearFiles,    \* machine: what Themes\Clear holds
    spotifyProcs,  \* machine: Spotify is running
    visProcs,      \* machine: number of running vis-capture processes
    shortcut,      \* machine: Startup\ClearVis.lnk exists
    task,          \* machine: the scheduled task ClearVisCapture exists
    visDir,        \* machine: the directory %LOCALAPPDATA%\ClearVis exists
    spConfig,      \* spicetify: the settings the scripts write
    patched,       \* spicetify: Spotify carries the applied theme
    nativeOk,      \* install script: $nativeOk
    lastInstall,   \* history: how the last run of the install script ended
    hadArtifacts   \* history: what the running uninstall script found at its start

progVars == <<pc, g_running, exitStatus, paOpen, clock, nextSend>>
wsVars   == <<wsListening, wsClient, peerAlive, connPending>>
fftVars  == <<cfg, g_hanningReady, g_binsReady, g_binLo, g_binHi,
             g_hanning, hanningWrites, binWrites>>
sendHist == <<lastSendAt, prevSendAt, sendsNoClient, barSends, winStart, winSends,
             sendFailed, resumed>>
sigHist  == <<afterSigPolls, afterSigReads, afterSigSleeps>>
runHist  == <<sawClient, idleReads, readFailed, loopEntered, anyRead, paFrees, wsStops>>
frameHist == <<samplesFresh, barsFresh, staleSends, iterReads, iterComputes>>
dspVars  == <<dmode, samples, buf, fn, flen, fi, fj, fw, bars, bufIn, passLens,
             touched, oob>>
guardVars == <<localStorage, clearExtensionDisabled, clearExtensionNoSplash, sheets,
               hasBody, domLoaded, winLoaded, noSplashClass, userWidget, loginButton,
               pathname, banners, ivActive, ivKill, recheck, domWait, loadWait,
               initTimer, observing, pending, reloading, disabledAtLoad, pageChanges,
               lastSaw, chain>>
setupVars == <<spos, spicetifyCmd, spicetifyDir, clearDir, clearFiles, spotifyProcs,
               visProcs, shortcut, task, visDir, spConfig, patched, nativeOk,
               lastInstall, hadArtifacts>>
vars == <<progVars, wsVars, fftVars, op, sendHist, sigHist, runHist, frameHist,
          dspVars, guardVars, setupVars>>

----------------------------------------------------------------------------
(* Bounds of the model *)

\* the clock stops the environment once it passes this reading
MaxClock == 100000
\* the cadence scenario runs this long past the end of the one-second window
CadenceSlack == 30000
\* largest sample rate, frequency and bar count of the bin-edge scenario
MaxRate == 6
MaxFreq == 6
MaxBars == 3

\* durations of one blocking pa_simple_read: a fast and a slow capture
ReadDurations == {10000, 25000}
\* transform sizes of the bin-edge scenario
FftSizes == {4, 8, 16}
\* 1.0 in the fixed-point model of float
FxOne == 100
\* the largest finite float of the model, in units of 1.0
FloatRange == 1000
\* the fft scenario transforms buffers of 2^0 .. 2^MaxLog2N entries
MaxLog2N == 3
\* theme stylesheets the extension injects into the page
MaxSheets == 2
\* changes of the page by the user and the application in the guard scenario
MaxPageChanges == 3
\* vis-capture processes running at once in the script scenario
MaxVisProcs == 2

----------------------------------------------------------------------------
(* Program constants *)

SEND_FPS == 60
OneSecond == 1000000
IdleSleepUs == 50000

frameInterval == OneSecond \div SEND_FPS

\* the protocol of the main scenario: Nyquist bin 8, FREQ_MAX below Nyquist
ProtocolCfg == [fft |-> 16, bars |-> 3, rate |-> 16, fmin |-> 1, fmax |-> 7]

DISABLED_KEY == "clear-extension-disabled"
\* the interval iv stops once tryDisable finds this many stylesheets
SheetsWanted == 2

ShutPcs == {"shutdown", "stopws", "ret", "exited"}

----------------------------------------------------------------------------
(* float: fixed-point numbers that overflow to infinity, with NaN *)

FloatMax == FloatRange * FxOne
PInf == FloatMax + 1
NInf == -PInf
NaN == FloatMax + 2

IsNaN(x) == x = NaN
IsInf(x) == x = PInf \/ x = NInf
IsFinite(x) == ~IsNaN(x) /\ ~IsInf(x)
Abs(x) == IF x < 0 THEN -x ELSE x
Sign(x) == IF x < 0 THEN -1 ELSE IF x > 0 THEN 1 ELSE 0

\* a finite result rounds to infinity beyond the largest finite float
Overflow(x) == IF x > FloatMax THEN PInf ELSE IF x < -FloatMax THEN NInf ELSE x

fneg(a) ==
    IF IsNaN(a) THEN NaN
    ELSE IF a = PInf THEN NInf
    ELSE IF a = NInf THEN PInf
    ELSE -a

\* a + b: inf + (-inf) is NaN
fadd(a, b) ==
    IF IsNaN(a) \/ IsNaN(b) THEN NaN
    ELSE IF IsInf(a) THEN (IF IsInf(b) /\ b # a THEN NaN ELSE a)
    ELSE IF IsInf(b) THEN b
    ELSE Overflow(a + b)

fsub(a, b) == fadd(a, fneg(b))

\* a * b: 0 * inf is NaN
fmul(a, b) ==
    IF IsNaN(a) \/ IsNaN(b) THEN NaN
    ELSE IF a = 0 \/ b = 0 THEN (IF IsInf(a) \/ IsInf(b) THEN NaN ELSE 0)
    ELSE IF IsInf(a) \/ IsInf(b) \/ Abs(a) > (FloatMax * FxOne) \div Abs(b)
         THEN (IF Sign(a) * Sign(b) > 0 THEN PInf ELSE NInf)
    ELSE Sign(a) * Sign(b) * ((Abs(a) * Abs(b)) \div FxOne)

\* a / k for an integer k > 0
fdivInt(a, k) ==
    IF IsNaN(a) \/ IsInf(a) THEN a
    ELSE Sign(a) * (Abs(a) \div k)

\* a < b and a > b are false when an operand is NaN
flt(a, b) == ~IsNaN(a) /\ ~IsNaN(b) /\ a < b
fgt(a, b) == flt(b, a)

RECURSIVE ISqrtIn(_, _, _)
ISqrtIn(x, lo, hi) ==
    IF lo >= hi THEN lo
    ELSE LET mid == (lo + hi + 1) \div 2
         IN  IF mid * mid <= x THEN ISqrtIn(x, mid, hi) ELSE ISqrtIn(x, lo, mid - 1)

\* sqrtf
fsqrt(a) ==
    IF IsNaN(a) \/ a < 0 THEN NaN
    ELSE IF a = PInf THEN PInf
    ELSE ISqrtIn(a * FxOne, 0, 4000)

\* floor(log10(x)) for a finite x > 0
RECURSIVE LogFloor(_)
LogFloor(x) ==
    IF x >= 10 * FxOne THEN 1 + LogFloor(x \div 10)
    ELSE IF x >= FxOne THEN 0
    ELSE LogFloor(x * 10) - 1

\* 20.0f * log10f(x + 1e-10f) in dB, to the decade below: log10f(1e-10f) = -10
decibels(x) ==
    IF IsNaN(x) \/ x < 0 THEN NaN
    ELSE IF x = PInf THEN PInf
    ELSE IF x = 0 THEN -200 * FxOne
    ELSE 20 * LogFloor(x) * FxOne

\* cos(2 pi p / q) for 0 <= p <= q, by Bhaskara's rational approximation
RECURSIVE CosTurn(_, _)
CosTurn(p, q) ==
    IF 4 * p <= q THEN (FxOne * (q * q - 16 * p * p)) \div (q * q + 4 * p * p)
    ELSE IF 2 * p <= q THEN -CosTurn(q - 2 * p, 2 * q)
    ELSE CosTurn(q - p, q)

\* sin(2 pi p / q) for 0 <= 2 p <= q
SinTurn(p, q) == CosTurn(Abs(4 * p - q), 4 * q)

----------------------------------------------------------------------------
(* fft.h: window coefficients and log-spaced bin edges *)

RECURSIVE Pow(_, _)
Pow(b, e) == IF e = 0 THEN 1 ELSE b * Pow(b, e - 1)

\* round(f * FFT_SIZE / SAMPLE_RATE) for the boundary frequency: the largest k
\* with (2k - 1) * SAMPLE_RATE <= 2 * f * FFT_SIZE
freqToBin_round(c, i) ==
    LET rhs == Pow(2 * c.fft, c.bars) * Pow(c.fmin, c.bars - i) * Pow(c.fmax, i)
    IN  CHOOSE k \in 0..((c.fft * c.fmax) \div c.rate + 1) :
            /\ k = 0 \/ Pow((2 * k - 1) * c.rate, c.bars) <= rhs
            /\ Pow((2 * k + 1) * c.rate, c.bars) > rhs

\* (int)(f * FFT_SIZE / SAMPLE_RATE) for the boundary frequency
\* f = FREQ_MIN * powf(FREQ_MAX / FREQ_MIN, i / BAR_COUNT): the cast truncates,
\* so the result is the largest k with k * SAMPLE_RATE <= f * FFT_SIZE, that is
\* (k * SAMPLE_RATE)^BAR_COUNT <= FFT_SIZE^BAR_COUNT * FREQ_MIN^(BAR_COUNT-i) * FREQ_MAX^i
freqToBin(c, i) ==
    LET rhs == Pow(c.fft, c.bars) * Pow(c.fmin, c.bars - i) * Pow(c.fmax, i)
    IN  CHOOSE k \in 0..((c.fft * c.fmax) \div c.rate) :
            /\ Pow(k * c.rate, c.bars) <= rhs
            /\ Pow((k + 1) * c.rate, c.bars) > rhs

\* g_binLo[i] after the clamp of line 946
binLo(c, i) ==
    LET raw == freqToBin(c, i)
    IN  IF raw < 1 THEN 1 ELSE raw

\* g_binHi[i] after the clamp of line 947 and the collapse of line 948
binHi(c, i) ==
    LET raw == freqToBin(c, i + 1)
        clamped == IF raw >= c.fft \div 2 THEN c.fft \div 2 - 1 ELSE raw
    IN  IF clamped < binLo(c, i) THEN binLo(c, i) ELSE clamped

\* g_hanning[i] = 0.5f * (1.0f - cosf(2 pi i / (FFT_SIZE - 1)))
hanning(n, i) ==
    IF n = 1 THEN NaN
    ELSE (FxOne - CosTurn(i, n - 1)) \div 2

ensureHanning ==
    IF g_hanningReady
    THEN UNCHANGED <<g_hanningReady, g_hanning, hanningWrites>>
    ELSE /\ g_hanning' = [i \in 0..(cfg.fft - 1) |-> hanning(cfg.fft, i)]
         /\ hanningWrites' = hanningWrites + 1
         /\ g_hanningReady' = TRUE

\* ensureBins without its ready flag
ensureBins_noFlag ==
    /\ g_binLo' = [i \in 0..(cfg.bars - 1) |-> binLo(cfg, i)]
    /\ g_binHi' = [i \in 0..(cfg.bars - 1) |-> binHi(cfg, i)]
    /\ binWrites' = binWrites + 1
    /\ UNCHANGED g_binsReady

ensureBins ==
    IF g_binsReady
    THEN UNCHANGED <<g_binsReady, g_binLo, g_binHi, binWrites>>
    ELSE /\ g_binLo' = [i \in 0..(cfg.bars - 1) |-> binLo(cfg, i)]
         /\ g_binHi' = [i \in 0..(cfg.bars - 1) |-> binHi(cfg, i)]
         /\ binWrites' = binWrites + 1
         /\ g_binsReady' = TRUE

\* the lazily filled tables of computeBars (lines 957-958)
computeBars ==
    /\ ensureHanning
    /\ ensureBins
    /\ UNCHANGED cfg

----------------------------------------------------------------------------
(* fft.h: complex helpers, bit reversal and the butterfly *)

Complex(r, i) == [re |-> r, im |-> i]

cadd(a, b) == Complex(fadd(a.re, b.re), fadd(a.im, b.im))
csub(a, b) == Complex(fsub(a.re, b.re), fsub(a.im, b.im))
cmul(a, b) ==
    Complex(fsub(fmul(a.re, b.re), fmul(a.im, b.im)),
            fadd(fmul(a.re, b.im), fmul(a.im, b.re)))

\* j & bit for a one-bit mask; the mask 0 ends the carry loop
BitSet(j, bit) == bit # 0 /\ (j \div bit) % 2 = 1

\* for (; j & bit; bit >>= 1) j ^= bit;  j ^= bit;
RECURSIVE NextJ(_, _)
NextJ(j, bit) ==
    IF BitSet(j, bit) THEN NextJ(j - bit, bit \div 2) ELSE j + bit

\* the exchange of bitReverse without its guard
swapAlways(b, i, j) ==
    [b EXCEPT ![i] = b[j], ![j] = b[i]]

\* if (i < j) { t = buf[i]; buf[i] = buf[j]; buf[j] = t; }
swapIfLess(b, i, j) ==
    IF i < j THEN [b EXCEPT ![i] = b[j], ![j] = b[i]] ELSE b

\* the body of the loop of bitReverse from index i on, with j as left by i - 1
RECURSIVE BitRevLoop(_, _, _, _)
BitRevLoop(b, n, i, j) ==
    IF i >= n THEN b
    ELSE LET j2 == NextJ(j, n \div 2)
         IN  BitRevLoop(swapIfLess(b, i, j2), n, i + 1, j2)

bitReverse(b, n) == BitRevLoop(b, n, 1, 0)

\* wn = {cosf(angle), sinf(angle)} for angle = -2 pi / len
wn(len) == Complex(CosTurn(1, len), fneg(SinTurn(1, len)))

\* the inner loop runs over the whole block
innerBound_full(len) == len

\* j < len / 2
innerBound(len) == len \div 2

\* a butterfly that adds the twiddle factor instead of the product
butterfly_addW(b, lo, hi, w) ==
    [b EXCEPT ![lo] = cadd(b[lo], w), ![hi] = csub(b[lo], w)]

\* u = buf[lo]; v = cmul(w, buf[hi]); buf[lo] = u + v; buf[hi] = u - v
butterfly(b, lo, hi, w) ==
    LET u == b[lo]
        v == cmul(w, b[hi])
    IN  [b EXCEPT ![lo] = cadd(u, v), ![hi] = csub(u, v)]

\* mag[i] = sqrtf(re * re + im * im)
magnitude(z) == fsqrt(fadd(fmul(z.re, z.re), fmul(z.im, z.im)))

\* sum += mag[k] for k = lo .. hi
RECURSIVE sumMag(_, _, _)
sumMag(b, lo, hi) ==
    IF lo > hi THEN 0 ELSE fadd(sumMag(b, lo, hi - 1), magnitude(b[hi]))

\* if (norm < 0.0f) norm = 0.0f; if (norm > 1.0f) norm = 1.0f;
clamp01(norm) ==
    IF flt(norm, 0) THEN 0 ELSE IF fgt(norm, FxOne) THEN FxOne ELSE norm

\* bars[b] of computeBars from the transformed buffer
barValue(b, c, lo, hi) ==
    LET count == IF hi >= lo THEN hi - lo + 1 ELSE 0
        sum   == sumMag(b, lo, hi)
        avg   == IF count > 0 THEN fdivInt(sum, count) ELSE 0
        db    == decibels(fdivInt(avg, c.fft \div 2))
        norm  == fdivInt(fadd(db, 60 * FxOne), 60)
    IN  clamp01(norm)

----------------------------------------------------------------------------
(* ws_server.h: the single-client streaming server *)

hasClient == wsClient

\* non-blocking accept; a connection arriving while a client is attached is
\* left in the backlog, rejected or replaces the client
poll ==
    IF ~connPending
    THEN UNCHANGED <<wsClient, peerAlive, connPending>>
    ELSE IF ~wsClient
         THEN wsClient' = TRUE /\ peerAlive' = TRUE /\ connPending' = FALSE
         ELSE \/ UNCHANGED <<wsClient, peerAlive, connPending>>
              \/ connPending' = FALSE /\ UNCHANGED <<wsClient, peerAlive>>
              \/ connPending' = FALSE /\ peerAlive' = TRUE /\ UNCHANGED wsClient

\* the result of sendBinary: the frame reaches an attached, live client
sendBinaryOk == wsClient /\ peerAlive

\* a failed send marks the client absent
sendBinary ==
    /\ wsClient' = sendBinaryOk
    /\ UNCHANGED <<wsListening, peerAlive, connPending>>

----------------------------------------------------------------------------
(* Initial states *)

MaxRead == CHOOSE d \in ReadDurations : \A e \in ReadDurations : e <= d

\* after onSignal the loop finishes at most one read or one idle sleep
ShutdownSlack == IdleSleepUs + MaxRead

\* the environment lets d microseconds pass only below the horizon cap
TimeOk(d, cap) == clock + d <= cap + (IF g_running THEN 0 ELSE ShutdownSlack)

InitWith(c, p) ==
    /\ pc = p
    /\ g_running = TRUE
    /\ exitStatus = -1
    /\ wsListening = FALSE
    /\ wsClient = FALSE
    /\ peerAlive = FALSE
    /\ connPending = FALSE
    /\ paOpen = FALSE
    /\ clock = 0
    /\ nextSend = 0
    /\ cfg = c
    /\ g_hanningReady = FALSE
    /\ g_binsReady = FALSE
    /\ g_binLo = [i \in 0..(c.bars - 1) |-> 0]
    /\ g_binHi = [i \in 0..(c.bars - 1) |-> 0]
    /\ g_hanning = [i \in 0..(c.fft - 1) |-> 0]
    /\ hanningWrites = 0
    /\ binWrites = 0
    /\ op = "none"
    /\ sawClient = FALSE
    /\ idleReads = 0
    /\ lastSendAt = -1
    /\ prevSendAt = -1
    /\ sendsNoClient = 0
    /\ barSends = 0
    /\ winStart = -1
    /\ winSends = 0
    /\ afterSigPolls = 0
    /\ afterSigReads = 0
    /\ afterSigSleeps = 0
    /\ readFailed = FALSE
    /\ sendFailed = FALSE
    /\ resumed = FALSE
    /\ loopEntered = FALSE
    /\ anyRead = FALSE
    /\ paFrees = 0
    /\ wsStops = 0
    /\ samplesFresh = FALSE
    /\ barsFresh = FALSE
    /\ staleSends = 0
    /\ iterReads = 0
    /\ iterComputes = 0

\* main() has installed its signal handlers; nothing else has run
\* the transform scenario is not running
DspOff ==
    /\ dmode = "off"
    /\ samples = <<>>
    /\ buf = <<>>
    /\ fn = 0
    /\ flen = 0
    /\ fi = 0
    /\ fj = 0
    /\ fw = Complex(0, 0)
    /\ bars = <<>>
    /\ bufIn = <<>>
    /\ passLens = <<>>
    /\ touched = <<>>
    /\ oob = FALSE

\* no page is open
GuardOff ==
    /\ localStorage = [k \in {DISABLED_KEY} |-> "null"]
    /\ clearExtensionDisabled = "undefined"
    /\ clearExtensionNoSplash = FALSE
    /\ sheets = [s \in 1..MaxSheets |-> "absent"]
    /\ hasBody = FALSE
    /\ domLoaded = FALSE
    /\ winLoaded = FALSE
    /\ noSplashClass = FALSE
    /\ userWidget = FALSE
    /\ loginButton = FALSE
    /\ pathname = <<>>
    /\ banners = 0
    /\ ivActive = FALSE
    /\ ivKill = FALSE
    /\ recheck = FALSE
    /\ domWait = {}
    /\ loadWait = FALSE
    /\ initTimer = FALSE
    /\ observing = FALSE
    /\ pending = {}
    /\ reloading = FALSE
    /\ disabledAtLoad = FALSE
    /\ pageChanges = 0
    /\ lastSaw = "none"
    /\ chain = 0

\* no script is run
SetupOff ==
    /\ spos = "off"
    /\ spicetifyCmd = FALSE
    /\ spicetifyDir = FALSE
    /\ clearDir = FALSE
    /\ clearFiles = {}
    /\ spotifyProcs = FALSE
    /\ visProcs = 0
    /\ shortcut = FALSE
    /\ task = FALSE
    /\ visDir = FALSE
    /\ spConfig = [current_theme |-> "", inject_theme_js |-> 0,
                   color_scheme |-> "", extensions |-> ""]
    /\ patched = FALSE
    /\ nativeOk = FALSE
    /\ lastInstall = "none"
    /\ hadArtifacts = FALSE

Init == InitWith(ProtocolCfg, "startws") /\ DspOff /\ GuardOff /\ SetupOff

----------------------------------------------------------------------------
(* main(): startup *)

\* ws.start(WS_PORT) succeeds
StartOk ==
    /\ pc = "startws"
    /\ wsListening' = TRUE
    /\ pc' = "openpa"
    /\ op' = "start"
    /\ UNCHANGED <<g_running, exitStatus, wsClient, peerAlive, connPending,
                   paOpen, clock, nextSend, cfg, g_hanningReady, g_binsReady,
                   g_binLo, g_binHi, sawClient, idleReads, lastSendAt,
                   prevSendAt, sendsNoClient, barSends, winStart, winSends,
                   afterSigPolls, afterSigReads, afterSigSleeps, readFailed,
                   sendFailed, resumed, loopEntered, anyRead, paFrees,
                   wsStops, g_hanning, hanningWrites, binWrites,
                   samplesFresh, barsFresh, staleSends, iterReads,
                   iterComputes, dspVars, guardVars, setupVars>>

\* ws.start(WS_PORT) fails: return 1
StartFail ==
    /\ pc = "startws"
    /\ exitStatus' = 1
    /\ pc' = "exited"
    /\ op' = "startfail"
    /\ UNCHANGED <<g_running, wsListening, wsClient, peerAlive, connPending,
                   paOpen, clock, nextSend, cfg, g_hanningReady, g_binsReady,
                   g_binLo, g_binHi, sawClient, idleReads, lastSendAt,
                   prevSendAt, sendsNoClient, barSends, winStart, winSends,
                   afterSigPolls, afterSigReads, afterSigSleeps, readFailed,
                   sendFailed, resumed, loopEntered, anyRead, paFrees,
                   wsStops, g_hanning, hanningWrites, binWrites,
                   samplesFresh, barsFresh, staleSends, iterReads,
                   iterComputes, dspVars, guardVars, setupVars>>

\* pa_simple_new succeeds; nextSend = Clock::now()
OpenOk ==
    /\ pc = "openpa"
    /\ paOpen' = TRUE
    /\ nextSend' = clock
    /\ pc' = "top"
    /\ op' = "open"
    /\ UNCHANGED <<g_running, exitStatus, wsListening, wsClient, peerAlive,
                   connPending, clock, cfg, g_hanningReady, g_binsReady,
                   g_binLo, g_binHi, sawClient, idleReads, lastSendAt,
                   prevSendAt, sendsNoClient, barSends, winStart, winSends,
                   afterSigPolls, afterSigReads, afterSigSleeps, readFailed,
                   sendFailed, resumed, loopEntered, anyRead, paFrees,
                   wsStops, g_hanning, hanningWrites, binWrites,
                   samplesFresh, barsFresh, staleSends, iterReads,
                   iterComputes, dspVars, guardVars, setupVars>>

\* OpenFail with the failure reported as success
OpenFail_return0 ==
    /\ pc = "openpa"
    /\ exitStatus' = 0
    /\ wsListening' = FALSE
    /\ pc' = "exited"
    /\ op' = "openfail"
    /\ UNCHANGED <<g_running, wsClient, peerAlive, connPending, paOpen,
                   clock, nextSend, cfg, g_hanningReady, g_binsReady,
                   g_binLo, g_binHi, sawClient, idleReads, lastSendAt,
                   prevSendAt, sendsNoClient, barSends, winStart, winSends,
                   afterSigPolls, afterSigReads, afterSigSleeps, readFailed,
                   sendFailed, resumed, loopEntered, anyRead, paFrees,
                   wsStops, g_hanning, hanningWrites, binWrites,
                   samplesFresh, barsFresh, staleSends, iterReads,
                   iterComputes, dspVars, guardVars, setupVars>>

\* pa_simple_new fails: return 1; leaving main closes the server socket
OpenFail ==
    /\ pc = "openpa"
    /\ exitStatus' = 1
    /\ wsListening' = FALSE
    /\ pc' = "exited"
    /\ op' = "openfail"
    /\ UNCHANGED <<g_running, wsClient, peerAlive, connPending, paOpen,
                   clock, nextSend, cfg, g_hanningReady, g_binsReady,
                   g_binLo, g_binHi, sawClient, idleReads, lastSendAt,
                   prevSendAt, sendsNoClient, barSends, winStart, winSends,
                   afterSigPolls, afterSigReads, afterSigSleeps, readFailed,
                   sendFailed, resumed, loopEntered, anyRead, paFrees,
                   wsStops, g_hanning, hanningWrites, binWrites,
                   samplesFresh, barsFresh, staleSends, iterReads,
                   iterComputes, dspVars, guardVars, setupVars>>

----------------------------------------------------------------------------
(* main(): the loop *)

\* while (g_running)
LoopTop ==
    /\ pc = "top"
    /\ loopEntered' = TRUE
    /\ samplesFresh' = FALSE
    /\ barsFresh' = FALSE
    /\ iterReads' = 0
    /\ iterComputes' = 0
    /\ pc' = IF g_running THEN "poll" ELSE "shutdown"
    /\ op' = "top"
    /\ UNCHANGED <<g_running, exitStatus, wsListening, wsClient, peerAlive,
                   connPending, paOpen, clock, nextSend, cfg, g_hanningReady,
                   g_binsReady, g_binLo, g_binHi, sawClient, idleReads,
                   lastSendAt, prevSendAt, sendsNoClient, barSends, winStart,
                   winSends, afterSigPolls, afterSigReads, afterSigSleeps,
                   readFailed, sendFailed, resumed, anyRead, paFrees,
                   wsStops, g_hanning, hanningWrites, binWrites, staleSends,
                   dspVars, guardVars, setupVars>>

\* ws.poll()
Poll ==
    /\ pc = "poll"
    /\ poll
    /\ winStart' = IF winStart < 0 /\ wsClient' THEN clock ELSE winStart
    /\ afterSigPolls' = afterSigPolls + (IF g_running THEN 0 ELSE 1)
    /\ pc' = "check"
    /\ op' = "poll"
    /\ UNCHANGED <<g_running, exitStatus, wsListening, paOpen, clock,
                   nextSend, cfg, g_hanningReady, g_binsReady, g_binLo,
                   g_binHi, sawClient, idleReads, lastSendAt, prevSendAt,
                   sendsNoClient, barSends, winSends, afterSigReads,
                   afterSigSleeps, readFailed, sendFailed, resumed,
                   loopEntered, anyRead, paFrees, wsStops, g_hanning,
                   hanningWrites, binWrites, samplesFresh, barsFresh,
                   staleSends, iterReads, iterComputes, dspVars, guardVars,
                   setupVars>>

\* CheckClient without the idle branch
CheckClient_noIdle ==
    /\ pc = "check"
    /\ sawClient' = hasClient
    /\ pc' = "read"
    /\ op' = "check"
    /\ UNCHANGED <<g_running, exitStatus, wsListening, wsClient, peerAlive,
                   connPending, paOpen, clock, nextSend, cfg, g_hanningReady,
                   g_binsReady, g_binLo, g_binHi, idleReads, lastSendAt,
                   prevSendAt, sendsNoClient, barSends, winStart, winSends,
                   afterSigPolls, afterSigReads, afterSigSleeps, readFailed,
                   sendFailed, resumed, loopEntered, anyRead, paFrees,
                   wsStops, g_hanning, hanningWrites, binWrites,
                   samplesFresh, barsFresh, staleSends, iterReads,
                   iterComputes, dspVars, guardVars, setupVars>>

\* CheckClient that reuses the last Sample Block instead of reading
CheckClient_skipRead ==
    /\ pc = "check"
    /\ sawClient' = hasClient
    /\ pc' = IF hasClient THEN "compute" ELSE "sleep"
    /\ op' = "check"
    /\ UNCHANGED <<g_running, exitStatus, wsListening, wsClient, peerAlive,
                   connPending, paOpen, clock, nextSend, cfg, g_hanningReady,
                   g_binsReady, g_binLo, g_binHi, idleReads, lastSendAt,
                   prevSendAt, sendsNoClient, barSends, winStart, winSends,
                   afterSigPolls, afterSigReads, afterSigSleeps, readFailed,
                   sendFailed, resumed, loopEntered, anyRead, paFrees,
                   wsStops, g_hanning, hanningWrites, binWrites,
                   samplesFresh, barsFresh, staleSends, iterReads,
                   iterComputes, dspVars, guardVars, setupVars>>

\* if (!ws.hasClient()) { sleep; continue; }
CheckClient ==
    /\ pc = "check"
    /\ sawClient' = hasClient
    /\ pc' = IF hasClient THEN "read" ELSE "sleep"
    /\ op' = "check"
    /\ UNCHANGED <<g_running, exitStatus, wsListening, wsClient, peerAlive,
                   connPending, paOpen, clock, nextSend, cfg, g_hanningReady,
                   g_binsReady, g_binLo, g_binHi, idleReads, lastSendAt,
                   prevSendAt, sendsNoClient, barSends, winStart, winSends,
                   afterSigPolls, afterSigReads, afterSigSleeps, readFailed,
                   sendFailed, resumed, loopEntered, anyRead, paFrees,
                   wsStops, g_hanning, hanningWrites, binWrites,
                   samplesFresh, barsFresh, staleSends, iterReads,
                   iterComputes, dspVars, guardVars, setupVars>>

\* IdleSleep that polls again without testing g_running
IdleSleep_repoll(cap) ==
    /\ pc = "sleep"
    /\ TimeOk(IdleSleepUs, cap)
    /\ clock' = clock + IdleSleepUs
    /\ afterSigSleeps' = afterSigSleeps + (IF g_running THEN 0 ELSE 1)
    /\ pc' = "poll"
    /\ op' = "sleep"
    /\ UNCHANGED <<g_running, exitStatus, wsListening, wsClient, peerAlive,
                   connPending, paOpen, nextSend, cfg, g_hanningReady,
                   g_binsReady, g_binLo, g_binHi, sawClient, idleReads,
                   lastSendAt, prevSendAt, sendsNoClient, barSends, winStart,
                   winSends, afterSigPolls, afterSigReads, readFailed,
                   sendFailed, resumed, loopEntered, anyRead, paFrees,
                   wsStops, g_hanning, hanningWrites, binWrites,
                   samplesFresh, barsFresh, staleSends, iterReads,
                   iterComputes, dspVars, guardVars, setupVars>>

\* std::this_thread::sleep_for(50 ms); continue
IdleSleep(cap) ==
    /\ pc = "sleep"
    /\ TimeOk(IdleSleepUs, cap)
    /\ clock' = clock + IdleSleepUs
    /\ afterSigSleeps' = afterSigSleeps + (IF g_running THEN 0 ELSE 1)
    /\ pc' = "top"
    /\ op' = "sleep"
    /\ UNCHANGED <<g_running, exitStatus, wsListening, wsClient, peerAlive,
                   connPending, paOpen, nextSend, cfg, g_hanningReady,
                   g_binsReady, g_binLo, g_binHi, sawClient, idleReads,
                   lastSendAt, prevSendAt, sendsNoClient, barSends, winStart,
                   winSends, afterSigPolls, afterSigReads, readFailed,
                   sendFailed, resumed, loopEntered, anyRead, paFrees,
                   wsStops, g_hanning, hanningWrites, binWrites,
                   samplesFresh, barsFresh, staleSends, iterReads,
                   iterComputes, dspVars, guardVars, setupVars>>

\* ReadOk that goes to the send check without computeBars
ReadOk_skipCompute(d, cap) ==
    /\ pc = "read"
    /\ TimeOk(d, cap)
    /\ clock' = clock + d
    /\ anyRead' = TRUE
    /\ idleReads' = idleReads + (IF hasClient THEN 0 ELSE 1)
    /\ afterSigReads' = afterSigReads + (IF g_running THEN 0 ELSE 1)
    /\ barsFresh' = FALSE
    /\ iterReads' = iterReads + 1
    /\ samplesFresh' = TRUE
    /\ pc' = "send"
    /\ op' = "read"
    /\ UNCHANGED <<g_running, exitStatus, wsListening, wsClient, peerAlive,
                   connPending, paOpen, nextSend, cfg, g_hanningReady,
                   g_binsReady, g_binLo, g_binHi, sawClient, lastSendAt,
                   prevSendAt, sendsNoClient, barSends, winStart, winSends,
                   afterSigPolls, afterSigSleeps, readFailed, sendFailed,
                   resumed, loopEntered, paFrees, wsStops, g_hanning,
                   hanningWrites, binWrites, staleSends, iterComputes,
                   dspVars, guardVars, setupVars>>

\* pa_simple_read blocks for d microseconds and returns a Sample Block
ReadOk(d, cap) ==
    /\ pc = "read"
    /\ TimeOk(d, cap)
    /\ clock' = clock + d
    /\ anyRead' = TRUE
    /\ idleReads' = idleReads + (IF hasClient THEN 0 ELSE 1)
    /\ afterSigReads' = afterSigReads + (IF g_running THEN 0 ELSE 1)
    /\ barsFresh' = FALSE
    /\ iterReads' = iterReads + 1
    /\ samplesFresh' = TRUE
    /\ pc' = "compute"
    /\ op' = "read"
    /\ UNCHANGED <<g_running, exitStatus, wsListening, wsClient, peerAlive,
                   connPending, paOpen, nextSend, cfg, g_hanningReady,
                   g_binsReady, g_binLo, g_binHi, sawClient, lastSendAt,
                   prevSendAt, sendsNoClient, barSends, winStart, winSends,
                   afterSigPolls, afterSigSleeps, readFailed, sendFailed,
                   resumed, loopEntered, paFrees, wsStops, g_hanning,
                   hanningWrites, binWrites, staleSends, iterComputes,
                   dspVars, guardVars, setupVars>>

\* ReadFail that goes round the loop again
ReadFail_retry(d, cap) ==
    /\ pc = "read"
    /\ TimeOk(d, cap)
    /\ clock' = clock + d
    /\ anyRead' = TRUE
    /\ idleReads' = idleReads + (IF hasClient THEN 0 ELSE 1)
    /\ afterSigReads' = afterSigReads + (IF g_running THEN 0 ELSE 1)
    /\ barsFresh' = FALSE
    /\ iterReads' = iterReads + 1
    /\ samplesFresh' = FALSE
    /\ readFailed' = TRUE
    /\ pc' = "top"
    /\ op' = "readfail"
    /\ UNCHANGED <<g_running, exitStatus, wsListening, wsClient, peerAlive,
                   connPending, paOpen, nextSend, cfg, g_hanningReady,
                   g_binsReady, g_binLo, g_binHi, sawClient, lastSendAt,
                   prevSendAt, sendsNoClient, barSends, winStart, winSends,
                   afterSigPolls, afterSigSleeps, sendFailed, resumed,
                   loopEntered, paFrees, wsStops, g_hanning, hanningWrites,
                   binWrites, staleSends, iterComputes, dspVars, guardVars,
                   setupVars>>

\* pa_simple_read returns < 0: break
ReadFail(d, cap) ==
    /\ pc = "read"
    /\ TimeOk(d, cap)
    /\ clock' = clock + d
    /\ anyRead' = TRUE
    /\ idleReads' = idleReads + (IF hasClient THEN 0 ELSE 1)
    /\ afterSigReads' = afterSigReads + (IF g_running THEN 0 ELSE 1)
    /\ barsFresh' = FALSE
    /\ iterReads' = iterReads + 1
    /\ samplesFresh' = FALSE
    /\ readFailed' = TRUE
    /\ pc' = "shutdown"
    /\ op' = "readfail"
    /\ UNCHANGED <<g_running, exitStatus, wsListening, wsClient, peerAlive,
                   connPending, paOpen, nextSend, cfg, g_hanningReady,
                   g_binsReady, g_binLo, g_binHi, sawClient, lastSendAt,
                   prevSendAt, sendsNoClient, barSends, winStart, winSends,
                   afterSigPolls, afterSigSleeps, sendFailed, resumed,
                   loopEntered, paFrees, wsStops, g_hanning, hanningWrites,
                   binWrites, staleSends, iterComputes, dspVars, guardVars,
                   setupVars>>

\* computeBars(samples, bars): a Bar Frame from the block in samples[];
\* the contents of the block and of the frame are left to the transform scenario
Compute ==
    /\ pc = "compute"
    /\ computeBars
    /\ barSends' = 0
    /\ barsFresh' = samplesFresh
    /\ iterComputes' = iterComputes + 1
    /\ pc' = "send"
    /\ op' = "compute"
    /\ UNCHANGED <<g_running, exitStatus, wsListening, wsClient, peerAlive,
                   connPending, paOpen, clock, nextSend, sawClient,
                   idleReads, lastSendAt, prevSendAt, sendsNoClient,
                   winStart, winSends, afterSigPolls, afterSigReads,
                   afterSigSleeps, readFailed, sendFailed, resumed,
                   loopEntered, anyRead, paFrees, wsStops, samplesFresh,
                   staleSends, iterReads, dspVars, guardVars, setupVars>>

\* SendCheck that forgets to add frameInterval
SendCheck_noInterval ==
    /\ pc = "send"
    /\ LET now == clock
       IN IF now >= nextSend /\ hasClient
          THEN /\ sendBinary
               /\ nextSend' = now
               /\ pc' = "top"
               /\ lastSendAt' = now
               /\ prevSendAt' = lastSendAt
               /\ sendsNoClient' = sendsNoClient + (IF wsClient THEN 0 ELSE 1)
               /\ barSends' = barSends + 1
               /\ winSends' = IF sendBinaryOk /\ winStart >= 0 /\ now < winStart + OneSecond
                              THEN winSends + 1 ELSE winSends
               /\ sendFailed' = (sendFailed \/ ~sendBinaryOk)
               /\ resumed' = (resumed \/ (sendFailed /\ sendBinaryOk))
               /\ op' = IF sendBinaryOk THEN "send" ELSE "sendfail"
               /\ staleSends' = staleSends + (IF barsFresh THEN 0 ELSE 1)
               /\ UNCHANGED winStart
          ELSE /\ pc' = "top"
               /\ op' = "skip"
               /\ UNCHANGED <<nextSend, wsVars, sendHist, staleSends>>
    /\ UNCHANGED <<g_running, exitStatus, paOpen, clock, fftVars, sigHist, runHist,
                   samplesFresh, barsFresh, iterReads, iterComputes, dspVars, guardVars, setupVars>>

\* SendCheck that leaves the loop when the send fails
SendCheck_breakOnFail ==
    /\ pc = "send"
    /\ LET now == clock
       IN IF now >= nextSend /\ hasClient
          THEN /\ sendBinary
               /\ nextSend' = now + frameInterval
               /\ pc' = IF sendBinaryOk THEN "top" ELSE "shutdown"
               /\ lastSendAt' = now
               /\ prevSendAt' = lastSendAt
               /\ sendsNoClient' = sendsNoClient + (IF wsClient THEN 0 ELSE 1)
               /\ barSends' = barSends + 1
               /\ winSends' = IF sendBinaryOk /\ winStart >= 0 /\ now < winStart + OneSecond
                              THEN winSends + 1 ELSE winSends
               /\ sendFailed' = (sendFailed \/ ~sendBinaryOk)
               /\ resumed' = (resumed \/ (sendFailed /\ sendBinaryOk))
               /\ op' = IF sendBinaryOk THEN "send" ELSE "sendfail"
               /\ staleSends' = staleSends + (IF barsFresh THEN 0 ELSE 1)
               /\ UNCHANGED winStart
          ELSE /\ pc' = "top"
               /\ op' = "skip"
               /\ UNCHANGED <<nextSend, wsVars, sendHist, staleSends>>
    /\ UNCHANGED <<g_running, exitStatus, paOpen, clock, fftVars, sigHist, runHist,
                   samplesFresh, barsFresh, iterReads, iterComputes, dspVars, guardVars, setupVars>>

\* if (now >= nextSend && ws.hasClient()) { ws.sendBinary(bars); nextSend = now + frameInterval; }
SendCheck ==
    /\ pc = "send"
    /\ LET now == clock
       IN IF now >= nextSend /\ hasClient
          THEN /\ sendBinary
               /\ nextSend' = now + frameInterval
               /\ pc' = "top"
               /\ lastSendAt' = now
               /\ prevSendAt' = lastSendAt
               /\ sendsNoClient' = sendsNoClient + (IF wsClient THEN 0 ELSE 1)
               /\ barSends' = barSends + 1
               /\ winSends' = IF sendBinaryOk /\ winStart >= 0 /\ now < winStart + OneSecond
                              THEN winSends + 1 ELSE winSends
               /\ sendFailed' = (sendFailed \/ ~sendBinaryOk)
               /\ resumed' = (resumed \/ (sendFailed /\ sendBinaryOk))
               /\ op' = IF sendBinaryOk THEN "send" ELSE "sendfail"
               /\ staleSends' = staleSends + (IF barsFresh THEN 0 ELSE 1)
               /\ UNCHANGED winStart
          ELSE /\ pc' = "top"
               /\ op' = "skip"
               /\ UNCHANGED <<nextSend, wsVars, sendHist, staleSends>>
    /\ UNCHANGED <<g_running, exitStatus, paOpen, clock, fftVars, sigHist, runHist,
                   samplesFresh, barsFresh, iterReads, iterComputes, dspVars, guardVars, setupVars>>

----------------------------------------------------------------------------
(* main(): shutdown *)

\* FreeAudio that returns without stopping the server
FreeAudio_skipStop ==
    /\ pc = "shutdown"
    /\ paOpen' = FALSE
    /\ paFrees' = paFrees + 1
    /\ pc' = "ret"
    /\ op' = "free"
    /\ UNCHANGED <<g_running, exitStatus, wsListening, wsClient, peerAlive,
                   connPending, clock, nextSend, cfg, g_hanningReady,
                   g_binsReady, g_binLo, g_binHi, sawClient, idleReads,
                   lastSendAt, prevSendAt, sendsNoClient, barSends, winStart,
                   winSends, afterSigPolls, afterSigReads, afterSigSleeps,
                   readFailed, sendFailed, resumed, loopEntered, anyRead,
                   wsStops, g_hanning, hanningWrites, binWrites,
                   samplesFresh, barsFresh, staleSends, iterReads,
                   iterComputes, dspVars, guardVars, setupVars>>

\* pa_simple_free(pa)
FreeAudio ==
    /\ pc = "shutdown"
    /\ paOpen' = FALSE
    /\ paFrees' = paFrees + 1
    /\ pc' = "stopws"
    /\ op' = "free"
    /\ UNCHANGED <<g_running, exitStatus, wsListening, wsClient, peerAlive,
                   connPending, clock, nextSend, cfg, g_hanningReady,
                   g_binsReady, g_binLo, g_binHi, sawClient, idleReads,
                   lastSendAt, prevSendAt, sendsNoClient, barSends, winStart,
                   winSends, afterSigPolls, afterSigReads, afterSigSleeps,
                   readFailed, sendFailed, resumed, loopEntered, anyRead,
                   wsStops, g_hanning, hanningWrites, binWrites,
                   samplesFresh, barsFresh, staleSends, iterReads,
                   iterComputes, dspVars, guardVars, setupVars>>

\* ws.stop()
StopServer ==
    /\ pc = "stopws"
    /\ wsListening' = FALSE
    /\ wsClient' = FALSE
    /\ peerAlive' = FALSE
    /\ connPending' = FALSE
    /\ wsStops' = wsStops + 1
    /\ pc' = "ret"
    /\ op' = "stop"
    /\ UNCHANGED <<g_running, exitStatus, paOpen, clock, nextSend, cfg,
                   g_hanningReady, g_binsReady, g_binLo, g_binHi, sawClient,
                   idleReads, lastSendAt, prevSendAt, sendsNoClient,
                   barSends, winStart, winSends, afterSigPolls,
                   afterSigReads, afterSigSleeps, readFailed, sendFailed,
                   resumed, loopEntered, anyRead, paFrees, g_hanning,
                   hanningWrites, binWrites, samplesFresh, barsFresh,
                   staleSends, iterReads, iterComputes, dspVars, guardVars,
                   setupVars>>

\* return 0
Return0 ==
    /\ pc = "ret"
    /\ exitStatus' = 0
    /\ pc' = "exited"
    /\ op' = "exit"
    /\ UNCHANGED <<g_running, wsListening, wsClient, peerAlive, connPending,
                   paOpen, clock, nextSend, cfg, g_hanningReady, g_binsReady,
                   g_binLo, g_binHi, sawClient, idleReads, lastSendAt,
                   prevSendAt, sendsNoClient, barSends, winStart, winSends,
                   afterSigPolls, afterSigReads, afterSigSleeps, readFailed,
                   sendFailed, resumed, loopEntered, anyRead, paFrees,
                   wsStops, g_hanning, hanningWrites, binWrites,
                   samplesFresh, barsFresh, staleSends, iterReads,
                   iterComputes, dspVars, guardVars, setupVars>>

----------------------------------------------------------------------------
(* The environment *)

\* SIGINT or SIGTERM: g_running = false
onSignal ==
    /\ pc # "exited"
    /\ g_running
    /\ g_running' = FALSE
    /\ UNCHANGED <<pc, exitStatus, wsListening, wsClient, peerAlive,
                   connPending, paOpen, clock, nextSend, cfg, g_hanningReady,
                   g_binsReady, g_binLo, g_binHi, op, sawClient, idleReads,
                   lastSendAt, prevSendAt, sendsNoClient, barSends, winStart,
                   winSends, afterSigPolls, afterSigReads, afterSigSleeps,
                   readFailed, sendFailed, resumed, loopEntered, anyRead,
                   paFrees, wsStops, g_hanning, hanningWrites, binWrites,
                   samplesFresh, barsFresh, staleSends, iterReads,
                   iterComputes, dspVars, guardVars, setupVars>>

\* a client connects to the listening socket
ClientConnect ==
    /\ wsListening
    /\ ~connPending
    /\ connPending' = TRUE
    /\ UNCHANGED <<pc, g_running, exitStatus, wsListening, wsClient,
                   peerAlive, paOpen, clock, nextSend, cfg, g_hanningReady,
                   g_binsReady, g_binLo, g_binHi, op, sawClient, idleReads,
                   lastSendAt, prevSendAt, sendsNoClient, barSends, winStart,
                   winSends, afterSigPolls, afterSigReads, afterSigSleeps,
                   readFailed, sendFailed, resumed, loopEntered, anyRead,
                   paFrees, wsStops, g_hanning, hanningWrites, binWrites,
                   samplesFresh, barsFresh, staleSends, iterReads,
                   iterComputes, dspVars, guardVars, setupVars>>

\* the attached client goes away; the server notices at the next send
ClientDrop ==
    /\ wsClient
    /\ peerAlive
    /\ peerAlive' = FALSE
    /\ UNCHANGED <<pc, g_running, exitStatus, wsListening, wsClient,
                   connPending, paOpen, clock, nextSend, cfg, g_hanningReady,
                   g_binsReady, g_binLo, g_binHi, op, sawClient, idleReads,
                   lastSendAt, prevSendAt, sendsNoClient, barSends, winStart,
                   winSends, afterSigPolls, afterSigReads, afterSigSleeps,
                   readFailed, sendFailed, resumed, loopEntered, anyRead,
                   paFrees, wsStops, g_hanning, hanningWrites, binWrites,
                   samplesFresh, barsFresh, staleSends, iterReads,
                   iterComputes, dspVars, guardVars, setupVars>>

----------------------------------------------------------------------------
(* Specifications *)

\* a step of main()
MainStep ==
    \/ StartOk \/ StartFail \/ OpenOk \/ OpenFail
    \/ LoopTop \/ Poll \/ CheckClient \/ IdleSleep(MaxClock)
    \/ \E d \in ReadDurations : ReadOk(d, MaxClock)
    \/ \E d \in ReadDurations : ReadFail(d, MaxClock)
    \/ Compute \/ SendCheck
    \/ FreeAudio \/ StopServer \/ Return0

Next ==
    \/ StartOk
    \/ StartFail
    \/ OpenOk
    \/ OpenFail
    \/ LoopTop
    \/ Poll
    \/ CheckClient
    \/ IdleSleep(MaxClock)
    \/ \E d \in ReadDurations : ReadOk(d, MaxClock)
    \/ \E d \in ReadDurations : ReadFail(d, MaxClock)
    \/ Compute
    \/ SendCheck
    \/ FreeAudio
    \/ StopServer
    \/ Return0
    \/ onSignal
    \/ ClientConnect
    \/ ClientDrop

Spec == Init /\ [][Next]_vars

\* main() is a running thread and a pending read returns
FairSpec == Spec /\ WF_vars(MainStep)

\* The cadence scenario: startup succeeds, every read succeeds, no signal
\* arrives and the client that attaches stays; one window is observed.
CadenceHorizon == winStart + OneSecond + CadenceSlack

NextCadence ==
    \/ StartOk
    \/ OpenOk
    \/ LoopTop
    \/ Poll
    \/ CheckClient
    \/ IdleSleep(MaxClock)
    \/ \E d \in ReadDurations : ReadOk(d, CadenceHorizon)
    \/ Compute
    \/ SendCheck
    \/ ClientConnect

SpecCadence == Init /\ [][NextCadence]_vars

\* The bin-edge scenario: ensureBins is called under every admissible choice
\* of the protocol constants within the bounds.
AdmissibleCfgs ==
    {c \in [fft : FftSizes, bars : 1..MaxBars, rate : 1..MaxRate,
            fmin : 1..MaxFreq, fmax : 1..MaxFreq] : c.fmin < c.fmax}

InitBins == \E c \in AdmissibleCfgs : InitWith(c, "bins") /\ DspOff /\ GuardOff /\ SetupOff

CallEnsureBins ==
    /\ pc = "bins"
    /\ ensureBins
    /\ op' = "bins"
    /\ UNCHANGED <<progVars, wsVars, cfg, g_hanningReady, g_hanning, hanningWrites,
                   sendHist, sigHist, runHist, frameHist, dspVars, guardVars, setupVars>>

NextBins == CallEnsureBins

SpecBins == InitBins /\ [][NextBins]_vars

----------------------------------------------------------------------------
(* The transform scenario: fft.h driven directly, one call after another *)

\* what a call of fft.h leaves alone in main()
mainRest == <<g_running, exitStatus, paOpen, clock, nextSend, wsVars, cfg,
              sendHist, sigHist, runHist, frameHist, guardVars, setupVars>>

FftNs == {Pow(2, k) : k \in 0..MaxLog2N}

zeroBuf(n) == [k \in 0..(n - 1) |-> Complex(0, 0)]
\* entry k holds k + 1, so that every entry is told apart
rampBuf(n) == [k \in 0..(n - 1) |-> Complex((k + 1) * FxOne, 0)]
\* a single 1.0 in the second half
impulseBuf(n) == [k \in 0..(n - 1) |-> Complex(IF k = n \div 2 THEN FxOne ELSE 0, 0)]
\* equal entries in pairs, with imaginary parts
pairBuf(n) == [k \in 0..(n - 1) |-> Complex((k \div 2) * FxOne, -FxOne)]

FftInputs(n) == {zeroBuf(n), rampBuf(n), impulseBuf(n), pairBuf(n)}

\* protocols of the computeBars calls: bars over bins 1..1 and over bins 1..3
DspCfgs == {[fft |-> 4, bars |-> 1, rate |-> 8, fmin |-> 2, fmax |-> 3],
            [fft |-> 8, bars |-> 2, rate |-> 8, fmin |-> 1, fmax |-> 3]}

\* float samples: silence, full scale and the largest finite float of either
\* sign for the short block; the extremes, and silence, for the long one
SampleValues(c) ==
    IF c.fft <= 4 THEN {-FloatMax, 0, FxOne, FloatMax} ELSE {-FloatMax, FloatMax}

silence(c) == [k \in 0..(c.fft - 1) |-> 0]

SampleBlocks(c) == [0..(c.fft - 1) -> SampleValues(c)] \cup {silence(c)}

noTouch(n) == [k \in 0..(n - 1) |-> 0]

InitDsp == \E c \in DspCfgs : InitWith(c, "dsp") /\ DspOff /\ GuardOff /\ SetupOff

\* a caller runs bitReverse(buf, n)
CallBitReverse(n, b) ==
    /\ pc = "dsp"
    /\ dmode' = "rev"
    /\ fn' = n
    /\ bufIn' = b
    /\ buf' = bitReverse(b, n)
    /\ pc' = "rev_once"
    /\ op' = "bitReverse"
    /\ UNCHANGED <<mainRest, g_hanningReady, g_binsReady, g_binLo, g_binHi, g_hanning,
                   hanningWrites, binWrites, samples, flen, fi, fj, fw, bars,
                   passLens, touched, oob>>

\* and runs it again on the result
CallBitReverseAgain ==
    /\ pc = "rev_once"
    /\ buf' = bitReverse(buf, fn)
    /\ pc' = "rev_twice"
    /\ op' = "bitReverse"
    /\ UNCHANGED <<mainRest, g_hanningReady, g_binsReady, g_binLo, g_binHi, g_hanning,
                   hanningWrites, binWrites, dmode, samples, fn, flen, fi, fj, fw, bars,
                   bufIn, passLens, touched, oob>>

\* a caller runs fft(buf, n)
CallFft(n, b) ==
    /\ pc = "dsp"
    /\ dmode' = "fft"
    /\ fn' = n
    /\ bufIn' = b
    /\ buf' = b
    /\ passLens' = <<>>
    /\ touched' = noTouch(n)
    /\ pc' = "fft_entry"
    /\ op' = "call"
    /\ UNCHANGED <<mainRest, g_hanningReady, g_binsReady, g_binLo, g_binHi, g_hanning,
                   hanningWrites, binWrites, samples, flen, fi, fj, fw, bars, oob>>

\* computeBars(samples, bars) up to the call of fft: the tables, then the window
CallComputeBars(s) ==
    /\ pc = "dsp"
    /\ dmode' = "bars"
    /\ samples' = s
    /\ ensureHanning
    /\ ensureBins
    /\ buf' = [k \in 0..(cfg.fft - 1) |-> Complex(fmul(s[k], g_hanning'[k]), 0)]
    /\ bufIn' = buf'
    /\ fn' = cfg.fft
    /\ passLens' = <<>>
    /\ touched' = noTouch(cfg.fft)
    /\ bars' = <<>>
    /\ pc' = "fft_entry"
    /\ op' = "call"
    /\ UNCHANGED <<mainRest, flen, fi, fj, fw, oob>>

\* fft: bitReverse(buf, n), then len = 2
FftEntry ==
    /\ pc = "fft_entry"
    /\ buf' = bitReverse(buf, fn)
    /\ flen' = 2
    /\ pc' = "fft_len"
    /\ op' = "bitReverse"
    /\ UNCHANGED <<mainRest, g_hanningReady, g_binsReady, g_binLo, g_binHi, g_hanning,
                   hanningWrites, binWrites, dmode, samples, fn, fi, fj, fw, bars,
                   bufIn, passLens, touched, oob>>

\* for (len = 2; len <= n; ...): a pass starts with i = 0, or fft returns
FftLen ==
    /\ pc = "fft_len"
    /\ IF flen <= fn
       THEN /\ passLens' = Append(passLens, flen)
            /\ touched' = noTouch(fn)
            /\ fi' = 0
            /\ pc' = "fft_i"
       ELSE /\ pc' = "fft_done"
            /\ UNCHANGED <<passLens, touched, fi>>
    /\ op' = "len"
    /\ UNCHANGED <<mainRest, g_hanningReady, g_binsReady, g_binLo, g_binHi, g_hanning,
                   hanningWrites, binWrites, dmode, samples, buf, fn, flen, fj, fw, bars,
                   bufIn, oob>>

\* for (i = 0; i < n; ...): a block starts with w = 1 and j = 0, or len <<= 1
FftI ==
    /\ pc = "fft_i"
    /\ IF fi < fn
       THEN /\ fw' = Complex(FxOne, 0)
            /\ fj' = 0
            /\ pc' = "fft_j"
            /\ UNCHANGED flen
       ELSE /\ flen' = 2 * flen
            /\ pc' = "fft_len"
            /\ UNCHANGED <<fw, fj>>
    /\ op' = "block"
    /\ UNCHANGED <<mainRest, g_hanningReady, g_binsReady, g_binLo, g_binHi, g_hanning,
                   hanningWrites, binWrites, dmode, samples, buf, fn, fi, bars,
                   bufIn, passLens, touched, oob>>

\* for (j = 0; j < len / 2; j++): one butterfly, or i += len.  An index
\* outside the buffer reads and overwrites memory that is not the buffer's.
FftJ ==
    /\ pc = "fft_j"
    /\ IF fj < innerBound(flen)
       THEN LET lo == fi + fj
                hi == fi + fj + flen \div 2
            IN  /\ IF lo < fn /\ hi < fn
                   THEN /\ buf' = butterfly(buf, lo, hi, fw)
                        /\ touched' = [touched EXCEPT ![lo] = @ + 1, ![hi] = @ + 1]
                        /\ UNCHANGED oob
                   ELSE /\ buf' \in {buf, [k \in 0..(fn - 1) |-> Complex(NaN, NaN)]}
                        /\ oob' = TRUE
                        /\ UNCHANGED touched
                /\ fw' = cmul(fw, wn(flen))
                /\ fj' = fj + 1
                /\ pc' = "fft_j"
                /\ op' = "butterfly"
                /\ UNCHANGED fi
       ELSE /\ fi' = fi + flen
            /\ pc' = "fft_i"
            /\ op' = "block"
            /\ UNCHANGED <<buf, touched, oob, fw, fj>>
    /\ UNCHANGED <<mainRest, g_hanningReady, g_binsReady, g_binLo, g_binHi, g_hanning,
                   hanningWrites, binWrites, dmode, samples, fn, flen, bars,
                   bufIn, passLens>>

\* computeBars after fft: the magnitudes and the bars
ComputeBarsRest ==
    /\ pc = "fft_done"
    /\ dmode = "bars"
    /\ bars' = [b \in 0..(cfg.bars - 1) |-> barValue(buf, cfg, g_binLo[b], g_binHi[b])]
    /\ pc' = "cb_done"
    /\ op' = "bars"
    /\ UNCHANGED <<mainRest, g_hanningReady, g_binsReady, g_binLo, g_binHi, g_hanning,
                   hanningWrites, binWrites, dmode, samples, buf, fn, flen, fi, fj, fw,
                   bufIn, passLens, touched, oob>>

\* the call returns and the caller is ready for its next call
DspReturn ==
    /\ \/ pc = "fft_done" /\ dmode = "fft"
       \/ pc = "cb_done"
       \/ pc = "rev_twice"
    /\ pc' = "dsp"
    /\ op' = "return"
    /\ dmode' = "off"
    /\ samples' = <<>>
    /\ buf' = <<>>
    /\ fn' = 0
    /\ flen' = 0
    /\ fi' = 0
    /\ fj' = 0
    /\ fw' = Complex(0, 0)
    /\ bars' = <<>>
    /\ bufIn' = <<>>
    /\ passLens' = <<>>
    /\ touched' = <<>>
    /\ oob' = FALSE
    /\ UNCHANGED <<mainRest, g_hanningReady, g_binsReady, g_binLo, g_binHi, g_hanning,
                   hanningWrites, binWrites>>

FftStep == FftEntry \/ FftLen \/ FftI \/ FftJ

NextDsp ==
    \/ \E n \in FftNs : \E b \in FftInputs(n) : CallBitReverse(n, b)
    \/ CallBitReverseAgain
    \/ \E n \in FftNs : \E b \in FftInputs(n) : CallFft(n, b)
    \/ \E s \in SampleBlocks(cfg) : CallComputeBars(s)
    \/ FftStep
    \/ ComputeBarsRest
    \/ DspReturn

SpecDsp == InitDsp /\ [][NextDsp]_vars

\* every started transform step is eventually taken
FairSpecDsp == SpecDsp /\ WF_vars(FftStep)

----------------------------------------------------------------------------
(* guard.js: the guard script of the Chrome extension and its page *)

\* what the page leaves alone: the native bridge
nativeVars == <<progVars, wsVars, fftVars, sendHist, sigHist, runHist, frameHist,
                dspVars, setupVars>>

ThemeSheets == 1..MaxSheets
\* window.location.pathname as its sequence of segments: "/", "/login",
\* "/login/forgot" and "/signup"
Paths == {<<>>, <<"login">>, <<"login", "forgot">>, <<"signup">>}

\* localStorage.getItem(k)
getItem(k) == localStorage[k]

\* p.startsWith(prefix)
startsWith(p, prefix) ==
    Len(p) >= Len(prefix) /\ SubSeq(p, 1, Len(prefix)) = prefix

\* isLoggedIn asking for the path before the user widget
isLoggedIn_pathFirst ==
    IF startsWith(pathname, <<"login">>) \/ startsWith(pathname, <<"signup">>) THEN FALSE
    ELSE IF userWidget THEN TRUE
    ELSE IF loginButton THEN FALSE
    ELSE TRUE

isLoggedIn ==
    IF userWidget THEN TRUE
    ELSE IF startsWith(pathname, <<"login">>) \/ startsWith(pathname, <<"signup">>) THEN FALSE
    ELSE IF loginButton THEN FALSE
    ELSE TRUE

\* setThemeSheetsDisabled(true): the stylesheets after the call
setThemeSheetsDisabled(sh) ==
    [s \in DOMAIN sh |-> IF sh[s] = "absent" THEN "absent" ELSE "disabled"]

\* its result: the number of theme stylesheets found
found(sh) == Cardinality({s \in DOMAIN sh : sh[s] # "absent"})

\* a lookup that never finds the banner
hasBanner_never == FALSE

\* document.getElementById("clear-guard-banner") is not null
hasBanner == banners > 0

showBanner == banners' = IF hasBanner THEN banners ELSE banners + 1

\* removeBanner that leaves the element in place
removeBanner_keep == banners' = banners

removeBanner == banners' = IF hasBanner THEN banners - 1 ELSE banners

\* a browser is about to load the page
InitGuard ==
    /\ InitWith(ProtocolCfg, "page")
    /\ DspOff
    /\ SetupOff
    /\ localStorage \in [{DISABLED_KEY} -> {"null", "true"}]
    /\ clearExtensionDisabled = "undefined"
    /\ clearExtensionNoSplash = FALSE
    /\ sheets = [s \in ThemeSheets |-> "absent"]
    /\ hasBody = FALSE
    /\ domLoaded = FALSE
    /\ winLoaded = FALSE
    /\ noSplashClass = FALSE
    /\ userWidget = FALSE
    /\ loginButton = FALSE
    /\ pathname \in Paths
    /\ banners = 0
    /\ ivActive = FALSE
    /\ ivKill = FALSE
    /\ recheck = FALSE
    /\ domWait = {}
    /\ loadWait = FALSE
    /\ initTimer = FALSE
    /\ observing = FALSE
    /\ pending = {}
    /\ reloading = TRUE
    /\ disabledAtLoad = FALSE
    /\ pageChanges = 0
    /\ lastSaw = "none"
    /\ chain = 0

\* the document is replaced and guard.js runs at document_start: body says
\* whether document.body exists by then, w and b which login elements it holds,
\* sh which theme stylesheets are already in document.styleSheets
PageLoad(body, w, b, sh) ==
    /\ reloading
    /\ reloading' = FALSE
    /\ hasBody' = body
    /\ domLoaded' = FALSE
    /\ winLoaded' = FALSE
    /\ userWidget' = (body /\ w)
    /\ loginButton' = (body /\ b)
    /\ banners' = 0
    /\ observing' = FALSE
    /\ pending' = {}
    /\ lastSaw' = "none"
    /\ chain' = 0
    /\ IF getItem(DISABLED_KEY) = "true"
       THEN /\ clearExtensionDisabled' = "true"
            /\ sheets' = setThemeSheetsDisabled(sh)
            /\ ivActive' = TRUE
            /\ ivKill' = TRUE
            /\ domWait' = {"tryDisable"}
            /\ loadWait' = TRUE
            /\ recheck' = TRUE
            /\ clearExtensionNoSplash' = FALSE
            /\ noSplashClass' = FALSE
            /\ initTimer' = FALSE
            /\ disabledAtLoad' = TRUE
       ELSE /\ clearExtensionDisabled' = "undefined"
            /\ sheets' = sh
            /\ ivActive' = FALSE
            /\ ivKill' = FALSE
            /\ loadWait' = FALSE
            /\ recheck' = FALSE
            /\ clearExtensionNoSplash' = TRUE
            /\ noSplashClass' = body
            /\ domWait' = IF body THEN {} ELSE {"nosplash", "init"}
            /\ initTimer' = body
            /\ disabledAtLoad' = FALSE
    /\ op' = "load"
    /\ UNCHANGED <<localStorage, pathname, pageChanges, nativeVars>>

\* the 50 ms interval: if (tryDisable() >= 2) clearInterval(iv)
IvTick ==
    /\ ivActive
    /\ sheets' = setThemeSheetsDisabled(sheets)
    /\ ivActive' = ~(found(sheets) >= SheetsWanted)
    /\ op' = "iv"
    /\ UNCHANGED <<localStorage, clearExtensionDisabled,
                   clearExtensionNoSplash, hasBody, domLoaded, winLoaded,
                   noSplashClass, userWidget, loginButton, pathname, banners,
                   ivKill, recheck, domWait, loadWait, initTimer, observing,
                   pending, reloading, disabledAtLoad, pageChanges, lastSaw,
                   chain, nativeVars>>

\* the 5 s timeout: clearInterval(iv)
IvKill ==
    /\ ivKill
    /\ ivKill' = FALSE
    /\ ivActive' = FALSE
    /\ op' = "ivkill"
    /\ UNCHANGED <<localStorage, clearExtensionDisabled,
                   clearExtensionNoSplash, sheets, hasBody, domLoaded,
                   winLoaded, noSplashClass, userWidget, loginButton,
                   pathname, banners, recheck, domWait, loadWait, initTimer,
                   observing, pending, reloading, disabledAtLoad,
                   pageChanges, lastSaw, chain, nativeVars>>

\* RecheckTick that re-enables the theme without asking isLoggedIn
RecheckTick_noLoginCheck ==
    /\ recheck
    /\ sheets' = setThemeSheetsDisabled(sheets)
    /\ lastSaw' = IF isLoggedIn THEN "in" ELSE "out"
    /\ localStorage' = [localStorage EXCEPT ![DISABLED_KEY] = "null"]
    /\ clearExtensionDisabled' = "false"
    /\ recheck' = FALSE
    /\ reloading' = TRUE
    /\ op' = "recheck"
    /\ UNCHANGED <<clearExtensionNoSplash, hasBody, domLoaded, winLoaded,
                   noSplashClass, userWidget, loginButton, pathname, banners,
                   ivActive, ivKill, domWait, loadWait, initTimer, observing,
                   pending, disabledAtLoad, pageChanges, chain, nativeVars>>

\* the 2 s interval: tryDisable, and on login remove the key, clear the
\* interval and reload
RecheckTick ==
    /\ recheck
    /\ sheets' = setThemeSheetsDisabled(sheets)
    /\ lastSaw' = IF isLoggedIn THEN "in" ELSE "out"
    /\ IF isLoggedIn
       THEN /\ localStorage' = [localStorage EXCEPT ![DISABLED_KEY] = "null"]
            /\ clearExtensionDisabled' = "false"
            /\ recheck' = FALSE
            /\ reloading' = TRUE
       ELSE UNCHANGED <<localStorage, clearExtensionDisabled, recheck, reloading>>
    /\ op' = "recheck"
    /\ UNCHANGED <<clearExtensionNoSplash, hasBody, domLoaded, winLoaded,
                   noSplashClass, userWidget, loginButton, pathname, banners,
                   ivActive, ivKill, domWait, loadWait, initTimer, observing,
                   pending, disabledAtLoad, pageChanges, chain, nativeVars>>

\* the 1.5 s timeout of init: the first check, then the observer is installed
InitCheck ==
    /\ initTimer
    /\ initTimer' = FALSE
    /\ lastSaw' = IF isLoggedIn THEN "in" ELSE "out"
    /\ IF ~isLoggedIn THEN showBanner ELSE UNCHANGED banners
    /\ observing' = TRUE
    /\ op' = "initcheck"
    /\ UNCHANGED <<localStorage, clearExtensionDisabled,
                   clearExtensionNoSplash, sheets, hasBody, domLoaded,
                   winLoaded, noSplashClass, userWidget, loginButton,
                   pathname, ivActive, ivKill, recheck, domWait, loadWait,
                   pending, reloading, disabledAtLoad, pageChanges, chain,
                   nativeVars>>

\* the MutationObserver callback runs on the queued records; what it inserts
\* or removes under document.body is queued for it in turn
ObserverCallback ==
    /\ observing
    /\ pending # {}
    /\ lastSaw' = IF isLoggedIn THEN "in" ELSE "out"
    /\ IF isLoggedIn
       THEN /\ removeBanner
            /\ localStorage' = [localStorage EXCEPT ![DISABLED_KEY] = "null"]
       ELSE /\ IF ~hasBanner THEN showBanner ELSE UNCHANGED banners
            /\ UNCHANGED localStorage
    /\ pending' = IF banners' # banners THEN {"own"} ELSE {}
    /\ chain' = IF pending = {"own"} THEN chain + 1 ELSE 0
    /\ op' = "callback"
    /\ UNCHANGED <<clearExtensionDisabled, clearExtensionNoSplash, sheets,
                   hasBody, domLoaded, winLoaded, noSplashClass, userWidget,
                   loginButton, pathname, ivActive, ivKill, recheck, domWait,
                   loadWait, initTimer, observing, reloading, disabledAtLoad,
                   pageChanges, nativeVars>>

\* the user clicks 'Disable until login' on the banner
UserClick ==
    /\ banners > 0
    /\ pageChanges < MaxPageChanges
    /\ pageChanges' = pageChanges + 1
    /\ localStorage' = [localStorage EXCEPT ![DISABLED_KEY] = "true"]
    /\ reloading' = TRUE
    /\ op' = "click"
    /\ UNCHANGED <<clearExtensionDisabled, clearExtensionNoSplash, sheets,
                   hasBody, domLoaded, winLoaded, noSplashClass, userWidget,
                   loginButton, pathname, banners, ivActive, ivKill, recheck,
                   domWait, loadWait, initTimer, observing, pending,
                   disabledAtLoad, lastSaw, chain, nativeVars>>

\* the parser creates document.body
BodyCreated ==
    /\ ~hasBody
    /\ hasBody' = TRUE
    /\ op' = "body"
    /\ UNCHANGED <<localStorage, clearExtensionDisabled,
                   clearExtensionNoSplash, sheets, domLoaded, winLoaded,
                   noSplashClass, userWidget, loginButton, pathname, banners,
                   ivActive, ivKill, recheck, domWait, loadWait, initTimer,
                   observing, pending, reloading, disabledAtLoad,
                   pageChanges, lastSaw, chain, nativeVars>>

\* DOMContentLoaded fires and runs the listeners that wait for it
DOMContentLoaded ==
    /\ ~domLoaded
    /\ domLoaded' = TRUE
    /\ hasBody' = TRUE
    /\ sheets' = IF "tryDisable" \in domWait THEN setThemeSheetsDisabled(sheets) ELSE sheets
    /\ noSplashClass' = (noSplashClass \/ "nosplash" \in domWait)
    /\ initTimer' = (initTimer \/ "init" \in domWait)
    /\ domWait' = {}
    /\ op' = "domloaded"
    /\ UNCHANGED <<localStorage, clearExtensionDisabled,
                   clearExtensionNoSplash, winLoaded, userWidget,
                   loginButton, pathname, banners, ivActive, ivKill, recheck,
                   loadWait, observing, pending, reloading, disabledAtLoad,
                   pageChanges, lastSaw, chain, nativeVars>>

\* the load event of window fires
WindowLoad ==
    /\ domLoaded
    /\ ~winLoaded
    /\ winLoaded' = TRUE
    /\ sheets' = IF loadWait THEN setThemeSheetsDisabled(sheets) ELSE sheets
    /\ loadWait' = FALSE
    /\ op' = "winload"
    /\ UNCHANGED <<localStorage, clearExtensionDisabled,
                   clearExtensionNoSplash, hasBody, domLoaded, noSplashClass,
                   userWidget, loginButton, pathname, banners, ivActive,
                   ivKill, recheck, domWait, initTimer, observing, pending,
                   reloading, disabledAtLoad, pageChanges, lastSaw, chain,
                   nativeVars>>

\* Chrome adds a theme stylesheet of the manifest to document.styleSheets
SheetLoads(s) ==
    /\ ~reloading
    /\ sheets[s] = "absent"
    /\ sheets' = [sheets EXCEPT ![s] = "enabled"]
    /\ op' = "sheet"
    /\ UNCHANGED <<localStorage, clearExtensionDisabled,
                   clearExtensionNoSplash, hasBody, domLoaded, winLoaded,
                   noSplashClass, userWidget, loginButton, pathname, banners,
                   ivActive, ivKill, recheck, domWait, loadWait, initTimer,
                   observing, pending, reloading, disabledAtLoad,
                   pageChanges, lastSaw, chain, nativeVars>>

\* the application changes the children of document.body: afterwards the user
\* widget is present iff w and a login or signup button iff b
PageChange(w, b) ==
    /\ hasBody
    /\ pageChanges < MaxPageChanges
    /\ pageChanges' = pageChanges + 1
    /\ userWidget' = w
    /\ loginButton' = b
    /\ pending' = IF observing THEN pending \cup {"page"} ELSE pending
    /\ op' = "change"
    /\ UNCHANGED <<localStorage, clearExtensionDisabled,
                   clearExtensionNoSplash, sheets, hasBody, domLoaded,
                   winLoaded, noSplashClass, pathname, banners, ivActive,
                   ivKill, recheck, domWait, loadWait, initTimer, observing,
                   reloading, disabledAtLoad, lastSaw, chain, nativeVars>>

\* the application changes the path with the history API
Navigate(p) ==
    /\ p # pathname
    /\ pageChanges < MaxPageChanges
    /\ pageChanges' = pageChanges + 1
    /\ pathname' = p
    /\ op' = "navigate"
    /\ UNCHANGED <<localStorage, clearExtensionDisabled,
                   clearExtensionNoSplash, sheets, hasBody, domLoaded,
                   winLoaded, noSplashClass, userWidget, loginButton,
                   banners, ivActive, ivKill, recheck, domWait, loadWait,
                   initTimer, observing, pending, reloading, disabledAtLoad,
                   lastSaw, chain, nativeVars>>

NextGuard ==
    \/ \E body, w, b \in BOOLEAN : \E sh \in [ThemeSheets -> {"absent", "enabled"}] :
           PageLoad(body, w, b, sh)
    \/ IvTick
    \/ IvKill
    \/ RecheckTick
    \/ InitCheck
    \/ ObserverCallback
    \/ UserClick
    \/ BodyCreated
    \/ DOMContentLoaded
    \/ WindowLoad
    \/ \E s \in ThemeSheets : SheetLoads(s)
    \/ \E w, b \in BOOLEAN : PageChange(w, b)
    \/ \E p \in Paths : Navigate(p)

SpecGuard == InitGuard /\ [][NextGuard]_vars

\* a queued callback of the observer is run
FairSpecGuard == SpecGuard /\ WF_vars(ObserverCallback)

----------------------------------------------------------------------------
(* The Windows install and uninstall scripts, one action per section *)

\* what the scripts leave alone: the bridge and the page
setupRest == <<progVars, wsVars, fftVars, sendHist, sigHist, runHist, frameHist,
               dspVars, guardVars>>

themeName == "Clear"
\* $themeFiles, in the order they are downloaded
themeFiles == <<"user.css", "color.ini", "theme.js">>
\* the directory native below Themes\Clear
nativeDir == "native"
\* $visBin: Themes\Clear\vis-capture.exe
visBin == "vis-capture.exe"

\* the settings of spicetify before any script: untouched, or another theme
ConfigDefault ==
    [current_theme |-> "", inject_theme_js |-> 0, color_scheme |-> "", extensions |-> ""]
ConfigOther ==
    [current_theme |-> "Other", inject_theme_js |-> 1, color_scheme |-> "dark",
     extensions |-> "ext.js"]

\* spicetify config <key> <value>
spicetifyConfig(c, key, value) == [c EXCEPT ![key] = value]

\* Remove-Item cannot delete the image of a running process; with
\* $ErrorActionPreference = "Stop" the error ends the script
locked == visProcs > 0 /\ visBin \in clearFiles

\* the first k theme files
downloaded(k) == {themeFiles[i] : i \in 1..k}

\* a Windows machine with or without spicetify, with or without what another
\* installer of the visualizer left behind
InitSetup ==
    /\ InitWith(ProtocolCfg, "setup")
    /\ DspOff
    /\ GuardOff
    /\ spos = "idle"
    /\ spicetifyCmd \in BOOLEAN
    /\ spicetifyDir \in BOOLEAN
    /\ clearDir = FALSE
    /\ clearFiles = {}
    /\ spotifyProcs \in BOOLEAN
    /\ visProcs = 0
    /\ shortcut = FALSE
    /\ task \in BOOLEAN
    /\ visDir = task
    /\ spConfig \in {ConfigDefault, ConfigOther}
    /\ patched = (spConfig = ConfigOther)
    /\ nativeOk = FALSE
    /\ lastInstall = "none"
    /\ hadArtifacts = FALSE

\* install 1: exit 1 unless spicetify is on the PATH
InstallCheck ==
    /\ spos = "idle"
    /\ IF spicetifyCmd
       THEN /\ spos' = "i2"
            /\ UNCHANGED lastInstall
       ELSE /\ spos' = "idle"
            /\ lastInstall' = "failed"
    /\ op' = "install1"
    /\ UNCHANGED <<spicetifyCmd, spicetifyDir, clearDir, clearFiles,
                   spotifyProcs, visProcs, shortcut, task, visDir, spConfig,
                   patched, nativeOk, hadArtifacts, setupRest>>

\* install 2: kill Spotify
InstallStopSpotify ==
    /\ spos = "i2"
    /\ spotifyProcs' = FALSE
    /\ spos' = "i3"
    /\ op' = "install2"
    /\ UNCHANGED <<spicetifyCmd, spicetifyDir, clearDir, clearFiles,
                   visProcs, shortcut, task, visDir, spConfig, patched,
                   nativeOk, lastInstall, hadArtifacts, setupRest>>

\* install 3: exit 1 unless the spicetify config directory is found
InstallLocate ==
    /\ spos = "i3"
    /\ IF spicetifyDir
       THEN /\ spos' = "i4"
            /\ UNCHANGED lastInstall
       ELSE /\ spos' = "idle"
            /\ lastInstall' = "failed"
    /\ op' = "install3"
    /\ UNCHANGED <<spicetifyCmd, spicetifyDir, clearDir, clearFiles,
                   spotifyProcs, visProcs, shortcut, task, visDir, spConfig,
                   patched, nativeOk, hadArtifacts, setupRest>>

\* install 4: remove an old Themes\Clear; the removal stops at the binary of
\* a running vis-capture, after any of the other entries
InstallClean ==
    /\ spos = "i4"
    /\ IF clearDir /\ locked
       THEN /\ clearFiles' \in {f \in SUBSET clearFiles : visBin \in f}
            /\ spos' = "idle"
            /\ lastInstall' = "failed"
            /\ UNCHANGED clearDir
       ELSE /\ clearDir' = FALSE
            /\ clearFiles' = {}
            /\ spos' = "i5"
            /\ UNCHANGED lastInstall
    /\ op' = "install4"
    /\ UNCHANGED <<spicetifyCmd, spicetifyDir, spotifyProcs, visProcs,
                   shortcut, task, visDir, spConfig, patched, nativeOk,
                   hadArtifacts, setupRest>>

\* install 5: create Themes\Clear and download the theme files; k of them
\* arrive, exit 1 at the first that fails
InstallDownload(k) ==
    /\ spos = "i5"
    /\ clearDir' = TRUE
    /\ clearFiles' = downloaded(k)
    /\ IF k = Len(themeFiles)
       THEN /\ spos' = "i6"
            /\ UNCHANGED lastInstall
       ELSE /\ spos' = "idle"
            /\ lastInstall' = "failed"
    /\ op' = "install5"
    /\ UNCHANGED <<spicetifyCmd, spicetifyDir, spotifyProcs, visProcs,
                   shortcut, task, visDir, spConfig, patched, nativeOk,
                   hadArtifacts, setupRest>>

\* install 6: current_theme Clear, inject_theme_js 1, color_scheme ""
InstallConfigure ==
    /\ spos = "i6"
    /\ spConfig' = spicetifyConfig(spicetifyConfig(spicetifyConfig(spConfig,
                       "current_theme", themeName), "inject_theme_js", 1),
                       "color_scheme", "")
    /\ spos' = "i7"
    /\ op' = "install6"
    /\ UNCHANGED <<spicetifyCmd, spicetifyDir, clearDir, clearFiles,
                   spotifyProcs, visProcs, shortcut, task, visDir, patched,
                   nativeOk, lastInstall, hadArtifacts, setupRest>>

\* install 7: spicetify backup apply, then spicetify apply; exit 1 if both fail
InstallApply(applied) ==
    /\ spos = "i7"
    /\ IF applied
       THEN /\ patched' = TRUE
            /\ spos' = "i8"
            /\ UNCHANGED lastInstall
       ELSE /\ spos' = "idle"
            /\ lastInstall' = "failed"
            /\ UNCHANGED patched
    /\ op' = "install7"
    /\ UNCHANGED <<spicetifyCmd, spicetifyDir, clearDir, clearFiles,
                   spotifyProcs, visProcs, shortcut, task, visDir, spConfig,
                   nativeOk, hadArtifacts, setupRest>>

\* install 8: download the sources of vis-capture, build it or download it
\* built; with the binary in place create the startup shortcut and start it
InstallDaemon(fetched, built) ==
    /\ spos = "i8"
    /\ nativeOk' = (fetched /\ built)
    /\ IF fetched /\ built
       THEN /\ clearFiles' = clearFiles \cup {nativeDir, visBin}
            /\ shortcut' = TRUE
            /\ visProcs' = visProcs + 1
       ELSE /\ clearFiles' = clearFiles \cup {nativeDir}
            /\ UNCHANGED <<shortcut, visProcs>>
    /\ spos' = "i9"
    /\ op' = "install8"
    /\ UNCHANGED <<spicetifyCmd, spicetifyDir, clearDir, spotifyProcs, task,
                   visDir, spConfig, patched, lastInstall, hadArtifacts,
                   setupRest>>

\* install 9: launch Spotify, if it is found; the script ends
InstallLaunch(launched) ==
    /\ spos = "i9"
    /\ spotifyProcs' = launched
    /\ lastInstall' = IF nativeOk THEN "daemon" ELSE "theme"
    /\ spos' = "idle"
    /\ op' = "installed"
    /\ UNCHANGED <<spicetifyCmd, spicetifyDir, clearDir, clearFiles,
                   visProcs, shortcut, task, visDir, spConfig, patched,
                   nativeOk, hadArtifacts, setupRest>>

\* uninstall 1: kill Spotify and every vis-capture process
UninstallStop ==
    /\ spos = "idle"
    /\ hadArtifacts' = /\ clearDir
                       /\ visBin \in clearFiles
                       /\ shortcut
                       /\ visProcs > 0
                       /\ spConfig.current_theme = themeName
    /\ spotifyProcs' = FALSE
    /\ visProcs' = 0
    /\ spos' = "u2"
    /\ op' = "uninstall1"
    /\ UNCHANGED <<spicetifyCmd, spicetifyDir, clearDir, clearFiles,
                   shortcut, task, visDir, spConfig, patched, nativeOk,
                   lastInstall, setupRest>>

\* uninstall 2: spicetify restore, if spicetify is on the PATH
UninstallRestore ==
    /\ spos = "u2"
    /\ patched' = IF spicetifyCmd THEN FALSE ELSE patched
    /\ spos' = "u3"
    /\ op' = "uninstall2"
    /\ UNCHANGED <<spicetifyCmd, spicetifyDir, clearDir, clearFiles,
                   spotifyProcs, visProcs, shortcut, task, visDir, spConfig,
                   nativeOk, lastInstall, hadArtifacts, setupRest>>

\* UninstallTheme that leaves Themes\Clear in place
UninstallTheme_keepDir ==
    /\ spos = "u3"
    /\ IF spicetifyDir
       THEN /\ spConfig' =
                   IF spicetifyCmd
                   THEN spicetifyConfig(spicetifyConfig(spicetifyConfig(spicetifyConfig(
                            spConfig, "current_theme", ""), "inject_theme_js", 0),
                            "color_scheme", ""), "extensions", "")
                   ELSE spConfig
            /\ spos' = "u4"
       ELSE /\ spos' = "u4"
            /\ UNCHANGED spConfig
    /\ op' = "uninstall3"
    /\ UNCHANGED <<spicetifyCmd, spicetifyDir, clearDir, clearFiles,
                   spotifyProcs, visProcs, shortcut, task, visDir, patched,
                   nativeOk, lastInstall, hadArtifacts, setupRest>>

\* uninstall 3: if the spicetify config directory is found, remove Themes\Clear
\* and reset current_theme, inject_theme_js, color_scheme and extensions
UninstallTheme ==
    /\ spos = "u3"
    /\ IF spicetifyDir
       THEN IF clearDir /\ locked
            THEN /\ clearFiles' \in {f \in SUBSET clearFiles : visBin \in f}
                 /\ spos' = "idle"
                 /\ UNCHANGED <<clearDir, spConfig>>
            ELSE /\ clearDir' = FALSE
                 /\ clearFiles' = {}
                 /\ spConfig' =
                        IF spicetifyCmd
                        THEN spicetifyConfig(spicetifyConfig(spicetifyConfig(spicetifyConfig(
                                 spConfig, "current_theme", ""), "inject_theme_js", 0),
                                 "color_scheme", ""), "extensions", "")
                        ELSE spConfig
                 /\ spos' = "u4"
       ELSE /\ spos' = "u4"
            /\ UNCHANGED <<clearDir, clearFiles, spConfig>>
    /\ op' = "uninstall3"
    /\ UNCHANGED <<spicetifyCmd, spicetifyDir, spotifyProcs, visProcs,
                   shortcut, task, visDir, patched, nativeOk, lastInstall,
                   hadArtifacts, setupRest>>

\* uninstall 4: remove the scheduled task, %LOCALAPPDATA%\ClearVis and the
\* startup shortcut
UninstallDaemon ==
    /\ spos = "u4"
    /\ task' = FALSE
    /\ visDir' = FALSE
    /\ shortcut' = FALSE
    /\ spos' = "u5"
    /\ op' = "uninstall4"
    /\ UNCHANGED <<spicetifyCmd, spicetifyDir, clearDir, clearFiles,
                   spotifyProcs, visProcs, spConfig, patched, nativeOk,
                   lastInstall, hadArtifacts, setupRest>>

\* uninstall 5: launch Spotify, if it is found; the script ends
UninstallLaunch(launched) ==
    /\ spos = "u5"
    /\ spotifyProcs' = launched
    /\ spos' = "idle"
    /\ op' = "uninstalled"
    /\ UNCHANGED <<spicetifyCmd, spicetifyDir, clearDir, clearFiles,
                   visProcs, shortcut, task, visDir, spConfig, patched,
                   nativeOk, lastInstall, hadArtifacts, setupRest>>

\* between two scripts the user logs in again: Windows runs the startup
\* shortcut, which starts vis-capture if its target exists
Login ==
    /\ spos = "idle"
    /\ shortcut
    /\ clearDir /\ visBin \in clearFiles
    /\ visProcs < MaxVisProcs
    /\ visProcs' = visProcs + 1
    /\ op' = "login"
    /\ UNCHANGED <<spos, spicetifyCmd, spicetifyDir, clearDir, clearFiles,
                   spotifyProcs, shortcut, task, visDir, spConfig, patched,
                   nativeOk, lastInstall, hadArtifacts, setupRest>>

\* a vis-capture process ends by itself
VisExit ==
    /\ spos # "off"
    /\ visProcs > 0
    /\ visProcs' = visProcs - 1
    /\ op' = "visexit"
    /\ UNCHANGED <<spos, spicetifyCmd, spicetifyDir, clearDir, clearFiles,
                   spotifyProcs, shortcut, task, visDir, spConfig, patched,
                   nativeOk, lastInstall, hadArtifacts, setupRest>>

NextSetup ==
    \/ InstallCheck
    \/ InstallStopSpotify
    \/ InstallLocate
    \/ InstallClean
    \/ \E k \in 0..Len(themeFiles) : InstallDownload(k)
    \/ InstallConfigure
    \/ \E applied \in BOOLEAN : InstallApply(applied)
    \/ \E fetched, built \in BOOLEAN : InstallDaemon(fetched, built)
    \/ \E launched \in BOOLEAN : InstallLaunch(launched)
    \/ UninstallStop
    \/ UninstallRestore
    \/ UninstallTheme
    \/ UninstallDaemon
    \/ \E launched \in BOOLEAN : UninstallLaunch(launched)
    \/ Login
    \/ VisExit

SpecSetup == InitSetup /\ [][NextSetup]_vars

----------------------------------------------------------------------------
(* Properties *)

\* C1: Idle no-read invariant. An audio read is pending or performed only in
\* an iteration whose idle check saw a client attached, the client is still
\* attached when the read starts, no read is ever started with no client
\* attached, and an iteration whose check saw no client only sleeps.
C1_IdleNoRead ==
    /\ pc = "read" => (sawClient /\ wsClient)
    /\ idleReads = 0
    /\ pc = "sleep" => (~sawClient /\ ~wsClient)

\* C1 witness: the loop has read audio for a client, lost it and is idle again
C1_Witness == anyRead /\ op = "sleep" /\ ~wsClient

\* C2: Sending cadence. Once a full second has passed since the client
\* attached, with the client attached throughout and every read succeeding,
\* the number of frames sent in that second is within the tolerance of SEND_FPS.
CadenceTolerance == SEND_FPS \div 20

C2_Cadence ==
    (winStart >= 0 /\ clock >= winStart + OneSecond /\ ~sendFailed /\ ~readFailed)
        => /\ winSends >= SEND_FPS - CadenceTolerance
           /\ winSends <= SEND_FPS + CadenceTolerance

\* C3: Send rate limit. The clock readings taken at two consecutive send
\* attempts differ by at least frameInterval = 1,000,000 / SEND_FPS microseconds.
C3_SendRateLimit ==
    prevSendAt >= 0 => lastSendAt - prevSendAt >= frameInterval

\* C3 witness: two sends were attempted and the limiter has just held one back
C3_Witness == prevSendAt >= 0 /\ op = "skip"

\* C4: Cooperative shutdown bound. After onSignal has cleared g_running the
\* loop makes at most one more poll and finishes at most one more read or idle
\* sleep, and main() eventually returns.
C4_ShutdownBound ==
    /\ [](/\ afterSigPolls <= 1
          /\ afterSigReads + afterSigSleeps <= 1)
    /\ (~g_running ~> pc = "exited")

\* C4 witness: the signal arrived in mid-iteration, one poll and one read
\* followed, and main() has returned
C4_Witness == pc = "exited" /\ ~g_running /\ afterSigPolls = 1 /\ afterSigReads = 1

\* C5: Audio read failure is fatal and not retried. Once pa_simple_read has
\* failed main() is in its shutdown sequence, and the only operations that
\* follow are pa_simple_free, ws.stop and the return.
C5_ReadFailFatal ==
    /\ [](readFailed => pc \in ShutPcs)
    /\ [][(readFailed /\ op' # op) => op' \in {"free", "stop", "exit"}]_vars

\* C5 witness: a read failed after frames were sent and main() has returned
C5_Witness == readFailed /\ lastSendAt >= 0 /\ pc = "exited"

\* C6: Client disconnect is transient. A failed send goes back to the top of
\* the loop and touches neither g_running nor the exit status; once a send has
\* failed, an idle check that finds no client attached leads to the idle sleep,
\* not to a read; the shutdown sequence is entered from the loop only after a
\* signal or a read failure.
BackToLoop == pc' = "top" /\ g_running' = g_running /\ exitStatus' = exitStatus

C6_DisconnectTransient ==
    /\ [][(pc = "send" /\ op' = "sendfail") => BackToLoop]_vars
    /\ []((sendFailed /\ op = "check" /\ ~wsClient) => pc = "sleep")
    /\ []((pc \in ShutPcs /\ loopEntered) => (~g_running \/ readFailed))

\* C6 witness: after a failed send a client attached again and received a frame
C6_Witness == resumed /\ op = "send" /\ g_running /\ ~readFailed

\* C7: Exit status. main() returns 0 after a signal-triggered shutdown; when
\* the server cannot start or the audio device cannot be opened it returns
\* non-zero and has run no loop iteration and no audio read.
C7_ExitStatus ==
    pc = "exited" =>
        /\ op \in {"startfail", "openfail"} =>
               (exitStatus # 0 /\ ~loopEntered /\ ~anyRead)
        /\ (loopEntered /\ ~g_running /\ ~readFailed) => exitStatus = 0

\* C7 witness: the server started, the audio device could not be opened
C7_Witness == pc = "exited" /\ op = "openfail"

\* C8: ShuttingDown is terminal. Every exit from the loop calls
\* pa_simple_free, then ws.stop, then returns, each once; the shutdown
\* sequence is never left and performs none of the loop's operations.
ShutdownStep ==
    /\ pc' \in ShutPcs
    /\ op' # op => op' \in {"free", "stop", "exit"}

C8_ShutdownTerminal ==
    /\ [](/\ paFrees <= 1
          /\ wsStops <= 1
          /\ wsStops = 1 => paFrees = 1
          /\ pc \in {"ret", "exited"} /\ loopEntered => (paFrees = 1 /\ wsStops = 1))
    /\ [][(pc \in ShutPcs) => ShutdownStep]_vars

\* C8 witness: the loop was left on a read failure and main() has returned
C8_Witness == pc = "exited" /\ readFailed /\ wsStops = 1

\* C9: Frames are sent only while a client is attached. A send is attempted
\* only when the server reports a client at the send check, and a Bar Frame
\* is sent at most once.
C9_SendOnlyAttached ==
    /\ [](sendsNoClient = 0 /\ barSends <= 1)
    /\ [][(pc = "send" /\ op' \in {"send", "sendfail"}) => wsClient]_vars

\* C9 witness: a second Bar Frame has been computed and sent
C9_Witness == op = "send" /\ prevSendAt >= 0 /\ barSends = 1

\* C10: Bin-edge invariant. After ensureBins, every bar has
\* 1 <= low <= high <= FFT_SIZE/2 - 1, low and high are non-decreasing in the
\* bar index, and every bin of a bar is an index of the magnitude array.
C10_BinEdges ==
    g_binsReady =>
        /\ \A i \in 0..(cfg.bars - 1) :
               /\ 1 <= g_binLo[i]
               /\ g_binLo[i] <= g_binHi[i]
               /\ g_binHi[i] <= cfg.fft \div 2 - 1
               /\ \A k \in g_binLo[i]..g_binHi[i] : 0 <= k /\ k < cfg.fft \div 2
        /\ \A i \in 0..(cfg.bars - 2) :
               /\ g_binLo[i] <= g_binLo[i + 1]
               /\ g_binHi[i] <= g_binHi[i + 1]


\* C11: Bar Frame range. Every value computeBars writes into the output frame
\* lies in [0,1] when every input sample is finite, and for an all-zero sample
\* block every bar is 0.
C11_BarRange ==
    (pc = "cb_done" /\ \A k \in DOMAIN samples : IsFinite(samples[k])) =>
        /\ \A b \in DOMAIN bars : 0 <= bars[b] /\ bars[b] <= FxOne
        /\ (\A k \in DOMAIN samples : samples[k] = 0) => \A b \in DOMAIN bars : bars[b] = 0

\* C12: Zero in, zero out. When fft was called with a buffer whose entries
\* are all zero and has run bitReverse and every butterfly pass, every complex
\* entry of the buffer is zero and every magnitude is zero.
C12_ZeroInZeroOut ==
    (pc = "fft_done" /\ \A k \in DOMAIN bufIn : bufIn[k] = Complex(0, 0)) =>
        \A k \in DOMAIN buf : buf[k] = Complex(0, 0) /\ magnitude(buf[k]) = 0

\* C12 witness: the largest transform has run all its passes on a zero buffer
C12_Witness ==
    /\ pc = "fft_done"
    /\ fn = Pow(2, MaxLog2N)
    /\ bufIn = zeroBuf(fn)
    /\ Len(passLens) = MaxLog2N

\* the bar-th power of f * FFT_SIZE for the boundary frequency f of index j
BoundaryPow(j) ==
    Pow(cfg.fft, cfg.bars) * Pow(cfg.fmin, cfg.bars - j) * Pow(cfg.fmax, j)

\* k <= f * FFT_SIZE / SAMPLE_RATE for the boundary frequency of index j
AtOrBelow(k, j) == Pow(k * cfg.rate, cfg.bars) <= BoundaryPow(j)

\* k is f * FFT_SIZE / SAMPLE_RATE with its fraction dropped
IsTruncation(k, j) == AtOrBelow(k, j) /\ ~AtOrBelow(k + 1, j)

\* C13 as stated: the low and the high edge of every bar are
\* round(f * FFT_SIZE / SAMPLE_RATE) of the bar's boundary frequencies, clamped.
C13_RoundsToNearest ==
    g_binsReady =>
        \A i \in 0..(cfg.bars - 1) :
            LET lo == IF freqToBin_round(cfg, i) < 1 THEN 1 ELSE freqToBin_round(cfg, i)
                up == IF freqToBin_round(cfg, i + 1) >= cfg.fft \div 2
                      THEN cfg.fft \div 2 - 1 ELSE freqToBin_round(cfg, i + 1)
            IN  /\ g_binLo[i] = lo
                /\ g_binHi[i] = IF up < lo THEN lo ELSE up

\* C13, amended: the conversion truncates. The low edge of a bar is
\* f * FFT_SIZE / SAMPLE_RATE with its fraction dropped, raised to 1; the high
\* edge is the truncated value of the next boundary, lowered to FFT_SIZE/2 - 1
\* and then raised to the low edge.
C13_Truncates ==
    g_binsReady =>
        \A i \in 0..(cfg.bars - 1) :
            /\ IF AtOrBelow(1, i)
               THEN IsTruncation(g_binLo[i], i)
               ELSE g_binLo[i] = 1
            /\ IF AtOrBelow(cfg.fft \div 2, i + 1)
               THEN g_binHi[i] = (IF cfg.fft \div 2 - 1 < g_binLo[i]
                                  THEN g_binLo[i] ELSE cfg.fft \div 2 - 1)
               ELSE IF AtOrBelow(g_binLo[i], i + 1)
                    THEN IsTruncation(g_binHi[i], i + 1)
                    ELSE g_binHi[i] = g_binLo[i]

\* C13 witness: the tables are filled and a boundary whose fraction is one
\* half or more was converted to the bin below the nearest one
C13_Witness ==
    /\ g_binsReady
    /\ \E i \in 0..(cfg.bars - 1) :
           /\ g_binLo[i] > 1
           /\ g_binLo[i] < cfg.fft \div 2 - 1
           /\ freqToBin_round(cfg, i) = g_binLo[i] + 1

\* a step that leaves a table alone once its ready flag is set
TablesKept ==
    /\ g_hanningReady => (g_hanningReady' /\ g_hanning' = g_hanning)
    /\ g_binsReady => (g_binsReady' /\ g_binLo' = g_binLo /\ g_binHi' = g_binHi)

\* a call of computeBars from the main loop leaves both ready flags set
FirstCallFills ==
    (pc = "compute" /\ pc' # "compute") => (g_hanningReady' /\ g_binsReady')

\* C14: Tables are computed exactly once. Over any sequence of computeBars
\* calls each table is filled at most once, it is filled exactly when its ready
\* flag is set, the first call sets both flags, and a step taken with a flag
\* set leaves the flag and its table unchanged.
C14_TablesOnce ==
    /\ [](/\ hanningWrites = (IF g_hanningReady THEN 1 ELSE 0)
          /\ binWrites = (IF g_binsReady THEN 1 ELSE 0))
    /\ [][TablesKept /\ FirstCallFills]_vars

\* C14 witness: computeBars has just run for at least the third time and each
\* table was filled once
C14_Witness ==
    /\ op = "compute"
    /\ prevSendAt >= 0
    /\ hanningWrites = 1
    /\ binWrites = 1
    /\ g_binLo[cfg.bars - 1] > 1

\* C15: Frames are never stale. An iteration never reads or computes twice;
\* when it reaches the send check it has made exactly one audio read and one
\* bar computation and the frame was computed from the block of that read; no
\* frame was ever sent that was not computed from the block of its iteration.
C15_FramesFresh ==
    /\ iterReads <= 1
    /\ iterComputes <= 1
    /\ pc = "send" => (iterReads = 1 /\ iterComputes = 1 /\ samplesFresh /\ barsFresh)
    /\ op \in {"send", "sendfail", "skip"} => (iterReads = 1 /\ iterComputes = 1)
    /\ staleSends = 0

\* C15 witness: a second frame has just been sent, computed in its own iteration
C15_Witness ==
    /\ op = "send"
    /\ prevSendAt >= 0
    /\ barsFresh
    /\ iterReads = 1
    /\ iterComputes = 1

\* the index whose log2(n)-bit binary representation is the reverse of i's
RECURSIVE Rev(_, _)
Rev(i, n) == IF n <= 1 THEN 0 ELSE (i % 2) * (n \div 2) + Rev(i \div 2, n \div 2)

\* the entries of b equal to v
Occurrences(b, v) == Cardinality({k \in DOMAIN b : b[k] = v})

\* b is a with the element of every index i moved to index Rev(i, n)
IsBitReversed(b, a, n) ==
    /\ DOMAIN b = DOMAIN a
    /\ \A i \in 0..(n - 1) : b[Rev(i, n)] = a[i]
    /\ \A i \in 0..(n - 1) : Occurrences(b, a[i]) = Occurrences(a, a[i])

\* C16: Bit-reversal is the index permutation. After bitReverse (called
\* directly or at the entry of fft) the element of every index i < n is at the
\* index whose log2(n)-bit representation is the reverse of i's and every value
\* occurs as often as before; after a second bitReverse the buffer is in its
\* original order.
C16_BitReversal ==
    /\ pc = "rev_once" => IsBitReversed(buf, bufIn, fn)
    /\ (pc = "fft_len" /\ passLens = <<>>) => IsBitReversed(buf, bufIn, fn)
    /\ pc = "rev_twice" => buf = bufIn

\* C16 witness: the largest buffer of distinct entries was reversed twice, and
\* one reversal changes its order
C16_Witness ==
    /\ pc = "rev_twice"
    /\ fn = Pow(2, MaxLog2N)
    /\ bufIn = rampBuf(fn)
    /\ bitReverse(bufIn, fn) # bufIn

RECURSIVE Log2(_)
Log2(n) == IF n <= 1 THEN 0 ELSE 1 + Log2(n \div 2)

FftPcs == {"fft_entry", "fft_len", "fft_i", "fft_j", "fft_done"}

\* the passes run so far are those of the stage lengths 2, 4, 8, ... in order
StageLengths == \A p \in 1..Len(passLens) : passLens[p] = Pow(2, p)

DisabledIdle ==
    /\ banners = 0
    /\ ~observing
    /\ ~initTimer
    /\ ~clearExtensionNoSplash
    /\ ~noSplashClass
    /\ domWait \subseteq {"tryDisable"}
    /\ pending = {}

\* a step that removes the key in the disabled state is taken with the user
\* logged in; it sets the flag to false, clears recheck and reloads the page
RemovedOnLogin ==
    (disabledAtLoad /\ getItem(DISABLED_KEY) = "true" /\ localStorage'[DISABLED_KEY] # "true")
        => (isLoggedIn /\ clearExtensionDisabled' = "false" /\ ~recheck' /\ reloading')

\* a step of the disabled page never enables a disabled theme stylesheet
StaysDisabled ==
    (disabledAtLoad /\ op' # "load")
        => \A s \in ThemeSheets : sheets[s] = "disabled" => sheets'[s] = "disabled"

\* C18: Disabled until login. On a page loaded with the key "true": no
\* banner, splash skip or login guard is set up; every run of tryDisable at
\* load and from the timers leaves every theme stylesheet found disabled and
\* no step enables one again; while recheck runs the key is "true" and the
\* flag is true; the key is removed only by a step that sees the user logged
\* in, and that step sets the flag to false, clears recheck and reloads.
C18_DisabledUntilLogin ==
    /\ [](disabledAtLoad =>
            /\ DisabledIdle
            /\ op \in {"load", "iv", "recheck"} =>
                   \A s \in ThemeSheets : sheets[s] # "enabled"
            /\ recheck => (getItem(DISABLED_KEY) = "true" /\ clearExtensionDisabled = "true")
            /\ ~recheck => (getItem(DISABLED_KEY) = "null" /\ lastSaw = "in"))
    /\ [][RemovedOnLogin /\ StaysDisabled]_vars

\* C18 witness: the disabled page has seen the user widget appear, removed the
\* key and asked for the reload, with every theme stylesheet disabled
C18_Witness ==
    /\ disabledAtLoad
    /\ op = "recheck"
    /\ userWidget
    /\ pageChanges > 0
    /\ getItem(DISABLED_KEY) = "null"
    /\ clearExtensionDisabled = "false"
    /\ reloading
    /\ \A s \in ThemeSheets : sheets[s] = "disabled"

\* C19: Banner tracks login state. Right after the initial delayed check and
\* right after every MutationObserver callback the page is in the enabled
\* state and the banner exists if and only if isLoggedIn() is false; after a
\* callback that saw the user logged in the disabled key is absent.
C19_BannerTracksLogin ==
    op \in {"initcheck", "callback"} =>
        /\ ~disabledAtLoad
        /\ (banners > 0) <=> ~isLoggedIn
        /\ (op = "callback" /\ lastSaw = "in") => getItem(DISABLED_KEY) = "null"

\* C19 witness: a callback has just removed the banner after a login
C19_Witness ==
    /\ op = "callback"
    /\ lastSaw = "in"
    /\ banners = 0
    /\ pending = {"own"}

\* a callback run on the script's own mutations alone, with isLoggedIn() as
\* the callback before it saw it, changes nothing
SelfTriggeredQuiet ==
    (pending = {"own"} /\ op' = "callback" /\ lastSaw' = lastSaw)
        => (banners' = banners /\ pending' = {})

\* C20: Banner is never duplicated. The page never holds two elements with
\* the id clear-guard-banner; a callback caused only by the banner's own
\* insertion or removal changes nothing unless the login state changed in
\* between, so the callbacks that follow one another on the script's own
\* mutations stay within the number of changes of the page plus one; and once
\* the page stops changing no record stays queued.
C20_NoDuplicateBanner ==
    /\ [](banners <= 1 /\ chain <= pageChanges + 1)
    /\ [][SelfTriggeredQuiet]_vars
    /\ <>[](pending = {})

\* C20 witness: the callback caused by the insertion of the banner has run and
\* left one banner and nothing queued
C20_Witness ==
    /\ op = "callback"
    /\ chain = 1
    /\ banners = 1
    /\ pending = {}


\* the answer the decision order prescribes for the three inputs: logged in
\* exactly when a user widget is present, or neither the path starts with
\* /login or /signup nor a login or signup button is present
onLoginPath ==
    startsWith(pathname, <<"login">>) \/ startsWith(pathname, <<"signup">>)

DecisionOrder(widget, loginPath, button) ==
    IF widget \/ (~loginPath /\ ~button) THEN "in" ELSE "out"

\* C21: isLoggedIn decision order. Whenever the recheck interval, the initial
\* check or the observer callback has just asked isLoggedIn(), the answer is
\* true if a user widget is present (even on a /login or /signup path),
\* otherwise false if the path starts with /login or /signup, otherwise
\* false if a login or signup button is present, otherwise true; the answer
\* is determined by these three inputs alone.
C21_DecisionOrder ==
    op \in {"recheck", "initcheck", "callback"} =>
        /\ lastSaw = DecisionOrder(userWidget, onLoginPath, loginButton)
        /\ userWidget => lastSaw = "in"
        /\ (~userWidget /\ onLoginPath) => lastSaw = "out"
        /\ (~userWidget /\ ~onLoginPath /\ loginButton) => lastSaw = "out"
        /\ (~userWidget /\ ~onLoginPath /\ ~loginButton) => lastSaw = "in"

\* C21 witness: a callback found the user widget on a /login path and
\* answered true
C21_Witness ==
    /\ op = "callback"
    /\ userWidget
    /\ pathname = <<"login">>
    /\ loginButton
    /\ lastSaw = "in"

\* nothing the install script put on the machine is left
ArtifactsGone ==
    /\ ~clearDir
    /\ clearFiles = {}
    /\ visBin \notin clearFiles
    /\ ~shortcut
    /\ visProcs = 0

\* the settings the scripts write are back at their reset values
SettingsReset ==
    /\ spConfig.current_theme = ""
    /\ spConfig.inject_theme_js = 0
    /\ spConfig.color_scheme = ""
    /\ spConfig.extensions = ""

====
